---- MODULE Spec2Model ----
(***************************************************************************)
(* A model of the OS-interaction engine of ACE-KILLER:                     *)
(*   core/process_monitor.py    service probe, process cache, two monitors *)
(*   utils/memory_cleaner.py    memory-reclaim scheduler and operations    *)
(*   utils/process_io_priority.py   process tuner                          *)
(*   utils/privilege_manager.py     privilege negotiation                  *)
(* Each component has its own specification (SpecSvc, SpecProc, SpecMem,   *)
(* SpecTune, SpecPriv) over the component's variables; the variables of    *)
(* the other components are parked at their constructor values.            *)
(***************************************************************************)
EXTENDS Integers, Sequences, FiniteSets, TLC

VARIABLES
    \* ---- ServiceStatusProbe (GameProcessMonitor.check_service_status)
    svcNow,            \* time.time(), in seconds
    svcOS,             \* the OS service manager: service name -> OS-side state
    service_cache,     \* self._service_cache: name -> "none" or a cache item
    svcLast,           \* history: the last query and its result; seq flips at each query
    svcLastOs,         \* history: name -> outcome and time of the last OS query
    \* ---- ProcessCache and the two monitor loops (GameProcessMonitor)
    procs,             \* the OS process table: instance id -> process
    nextId,            \* next process instance id the OS hands out
    procNow,           \* time.time(), in seconds
    process_cache,     \* self.process_cache: lowercase name -> instance id or 0
    last_cache_refresh,
    running,           \* self.running
    show_notifications,
    anticheat_killed,
    scanprocess_optimized,
    message_queue,
    acePc,             \* the popup-monitor thread: "none", "loop" or "done";
                       \* statement by statement: "head", "body", "sleep", "exiting"
    scanPc,            \* the scanner-monitor thread: "none", "loop" or "done"
    aceCounter,        \* check_counter of monitor_acetray_process, mod 5
    scanCounter,       \* check_counter of monitor_sguard_process, mod 5
    cores,             \* psutil.cpu_count(logical=True)
    procLast,          \* history: what the last lookup / poll did
    walk,              \* threads inside the cache functions, statement by statement
    \* ---- MemoryCleanerManager scheduler
    memNow,
    mc_enabled,
    clean_switches,
    mc_running,
    cooldown_time,
    clean_interval,
    threshold,
    last_threshold_clean,
    threads,           \* scheduler threads: id -> [pc, cur, last_clean_time, wake,
                       \*   born (start time), pct (utilisation seen by the pass)]
    memLast,           \* history: the last round and the last two threshold rounds
    \* ---- ProcessIoPriorityManager
    tprocs,            \* the OS process table seen by the tuner: pid -> process
    cpu_count,         \* self._cpu_count
    tuneLast,          \* history: the last set_process_io_priority call
    byNameLast,        \* history: the last set_process_io_priority_by_name call
    \* ---- the background loops and their stop flags
    loopFlag,          \* owner -> self.running of that owner
    loopThreads,       \* slot -> [pc, n, late, brokeAt] of a loop thread
    cycleLast,         \* history: the list and the calls of the last tuning cycle
    io_priority_processes, \* config_manager.io_priority_processes: the tracked list
    \* ---- WindowsPrivilegeManager and trim_process_working_set
    privOutcome,       \* OS answer to each privilege request
    tokenOK,           \* whether OpenProcessToken succeeded
    available_functions,
    negotiated,
    brute_mode,
    mprocs,            \* the OS process table seen by the cleaner: pid -> granted rights
    trimLast,          \* history: the last trim_process_working_set call
    privilege_details, \* privilege name -> result of _request_single_privilege
    requestLog,        \* history: the privileges requested, in order
    \* ---- MemoryCleanerManager: the reclaim operations and their statistics
    total_cleaned_mb,
    clean_count,
    cleaners,          \* threads inside a reclaim operation: id -> [pc, tmp, mb]
    statDone,          \* history: operations that finished recording, and their sum
    cleanLast          \* history: the last clean_memory_all call

svcVars  == <<svcNow, svcOS, service_cache, svcLast, svcLastOs>>
procVars == <<procs, nextId, procNow, process_cache, last_cache_refresh, running,
              show_notifications, anticheat_killed, scanprocess_optimized,
              message_queue, acePc, scanPc, aceCounter, scanCounter, cores,
              procLast, walk>>
memVars  == <<memNow, mc_enabled, clean_switches, mc_running, cooldown_time,
              clean_interval, threshold, last_threshold_clean,
              threads, memLast>>
loopVars == <<loopFlag, loopThreads, cycleLast, io_priority_processes>>
tuneVars == <<tprocs, cpu_count, tuneLast, byNameLast, loopVars>>
statVars == <<total_cleaned_mb, clean_count, cleaners, statDone, cleanLast>>
privVars == <<privOutcome, tokenOK, available_functions, negotiated, brute_mode,
              mprocs, trimLast, privilege_details, requestLog, statVars>>
vars == <<svcVars, procVars, memVars, tuneVars, privVars>>

Range(f) == {f[x] : x \in DOMAIN f}

(***************************************************************************)
(* ServiceStatusProbe                                                      *)
(***************************************************************************)
MaxSvcTime == 1200
NEG_TTL == 600
ERROR_SERVICE_DOES_NOT_EXIST == 1060
ERROR_ACCESS_DENIED == 5

\* two of the four services of anticheat_services
ServiceNames == {"ACE-BASE", "ACE-GAME"}
\* seconds that may pass between two events of the probe
SvcSteps == {599, 600}

\* win32service state and start-type codes the OS may report
SvcStateCodes == {4, 9}
SvcStartCodes == {2}
\* OS-side state of a service: missing, not openable, or installed
SvcOsStates == {[k |-> "absent"], [k |-> "denied"]}
               \cup {[k |-> "installed", state |-> s, start |-> t] :
                       s \in SvcStateCodes, t \in SvcStartCodes}

status_map(code) ==
    CASE code = 4 -> "running"
      [] code = 1 -> "stopped"
      [] code = 7 -> "paused"
      [] code = 2 -> "start_pending"
      [] code = 3 -> "stop_pending"
      [] code = 5 -> "continue_pending"
      [] code = 6 -> "pause_pending"
      [] OTHER -> "unknown"

start_type_map(code) ==
    CASE code = 2 -> "auto"
      [] code = 3 -> "manual"
      [] code = 4 -> "disabled"
      [] code = 0 -> "boot"
      [] code = 1 -> "system"
      [] OTHER -> "unknown"

NoItem == [k |-> "none"]
CacheItem(e, st, ty, at) ==
    [k |-> "item", exists |-> e, status |-> st, start_type |-> ty, last_check |-> at]
NegResult == <<FALSE, "unknown", "unknown">>

\* a cache check that only ever reuses positive entries
CacheHit_positive(item, t) ==
    /\ item.k = "item"
    /\ item.exists
    /\ t - item.last_check < NEG_TTL

\* a mutant of CacheHit: a negative entry never expires
CacheHit_forever(item, t) ==
    /\ item.k = "item"
    /\ ~item.exists

\* the age of the negative entry a query meets, -1 when it meets none
NegAge(item, t) == IF item.k = "item" /\ ~item.exists THEN t - item.last_check ELSE -1

\* lines 164-168: the cached negative answer is used while it is younger than 600 s
CacheHit(item, t) ==
    /\ item.k = "item"
    /\ ~item.exists
    /\ t - item.last_check < NEG_TTL

\* OpenService ... except win32service.error: the error code the OS raises
OpenServiceError(os) ==
    CASE os.k = "absent" -> ERROR_SERVICE_DOES_NOT_EXIST
      [] os.k = "denied" -> ERROR_ACCESS_DENIED
      [] OTHER -> 0

\* what check_service_status returns and stores once it is past the cache check;
\* scm is whether OpenSCManager succeeded
ProbeResult(os, scm) ==
    IF ~scm THEN NegResult
    ELSE IF os.k = "installed"
         THEN <<TRUE, status_map(os.state), start_type_map(os.start)>>
         ELSE NegResult

ProbeStore(old, os, scm, t) ==
    IF ~scm THEN old
    ELSE IF os.k = "installed"
         THEN CacheItem(TRUE, status_map(os.state), start_type_map(os.start), t)
         ELSE CacheItem(FALSE, "unknown", "unknown", t)

\* check_service_status(service_name) on the probe state st = [cache, lastOs, last]
\* at time t; scm is whether OpenSCManager succeeds for this call
check_service_status(st, os, s, scm, t) ==
    LET item == st.cache[s]
    IN IF CacheHit(item, t)
       THEN [st EXCEPT !.last = [name |-> s,
                                 result |-> <<item.exists, item.status, item.start_type>>,
                                 usedOS |-> FALSE, seq |-> 1 - st.last.seq,
                                 negAge |-> NegAge(item, t)]]
       ELSE [cache |-> [st.cache EXCEPT ![s] = ProbeStore(item, os[s], scm, t)],
             lastOs |-> [st.lastOs EXCEPT ![s] =
                            [err |-> IF scm THEN OpenServiceError(os[s]) ELSE -1, at |-> t]],
             last |-> [name |-> s, result |-> ProbeResult(os[s], scm),
                       usedOS |-> TRUE, seq |-> 1 - st.last.seq,
                       negAge |-> NegAge(item, t)]]

SvcOrder == <<"ACE-BASE", "ACE-GAME">>

\* monitor_anticheat_service(): one check per service of the list, in order
RECURSIVE monitor_from(_, _, _, _, _)
monitor_from(i, st, os, scmf, t) ==
    IF i > Len(SvcOrder) THEN st
    ELSE monitor_from(i + 1, check_service_status(st, os, SvcOrder[i], scmf[SvcOrder[i]], t),
                      os, scmf, t)

monitor_anticheat_service(st, os, scmf, t) == monitor_from(1, st, os, scmf, t)

SvcState == [cache |-> service_cache, lastOs |-> svcLastOs, last |-> svcLast]

SvcQuery ==
    /\ \E s \in ServiceNames, scm \in BOOLEAN :
          LET r == check_service_status(SvcState, svcOS, s, scm, svcNow)
          IN /\ service_cache' = r.cache
             /\ svcLastOs' = r.lastOs
             /\ svcLast' = r.last
    /\ UNCHANGED <<svcNow, svcOS>>

\* a service is installed, removed, or its state changes
SvcEnvChange ==
    /\ \E s \in ServiceNames, st \in SvcOsStates :
          /\ svcOS[s] # st
          /\ svcOS' = [svcOS EXCEPT ![s] = st]
    /\ UNCHANGED <<svcNow, service_cache, svcLast, svcLastOs>>

SvcTick ==
    /\ \E d \in SvcSteps :
          /\ svcNow + d <= MaxSvcTime
          /\ svcNow' = svcNow + d
    /\ UNCHANGED <<svcOS, service_cache, svcLast, svcLastOs>>

NoOsQuery == [err |-> -2, at |-> 0]
ParkSvc ==
    /\ svcNow = 0
    /\ svcOS = [s \in ServiceNames |-> [k |-> "absent"]]
    /\ service_cache = [s \in ServiceNames |-> NoItem]
    /\ svcLast = [name |-> "", result |-> NegResult, usedOS |-> FALSE, seq |-> 0,
                  negAge |-> -1]
    /\ svcLastOs = [s \in ServiceNames |-> NoOsQuery]

(***************************************************************************)
(* The OS process table, the process cache and the two monitor loops       *)
(***************************************************************************)
MaxProcs == 2
MaxProcTime == 105
ProcT0 == 100
MaxCores == 3
\* messages the notification queue holds before the monitors are held back
MaxQueue == 1
cache_timeout == 5
REFRESH_EVERY == 5
\* seconds that may pass between two events of the monitors
ProcSteps == {5}

anticheat_name == "ACE-Tray.exe"
scanprocess_name == "SGuard64.exe"

\* str.lower() on the process names of the model; "" stands for a name psutil
\* could not read (None)
Lower(n) ==
    CASE n = "ACE-Tray.exe" -> "ace-tray.exe"
      [] n = "ACE-TRAY.EXE" -> "ace-tray.exe"
      [] n = "ace-tray.exe" -> "ace-tray.exe"
      [] n = "SGuard64.exe" -> "sguard64.exe"
      [] n = "sguard64.exe" -> "sguard64.exe"
      [] n = "Other.exe" -> "other.exe"
      [] OTHER -> n

AceNames == {"ACE-Tray.exe", "ACE-TRAY.EXE", ""}
AllProcNames == AceNames \cup {scanprocess_name, "Other.exe"}
Keys == {Lower(n) : n \in AllProcNames} \ {""}

Ids == 1..MaxProcs
\* what the OS lets this program do to a process
FullAccess == {"kill", "open", "readaff", "readprio", "setaff"}
Unborn == [name |-> "", st |-> "unborn", affinity |-> {}, prio |-> "Normal",
           throttle |-> FALSE, acc |-> FullAccess]

Min(S) == CHOOSE x \in S : \A y \in S : x <= y
Max(S) == CHOOSE x \in S : \A y \in S : x >= y

AllCores(n) == 0..(n - 1)

\* psutil.process_iter: the running processes whose name is readable and
\* lowercases to key
Matches(tbl, key) ==
    {i \in DOMAIN tbl : tbl[i].st = "alive" /\ tbl[i].name # "" /\ Lower(tbl[i].name) = key}

\* a mutant of is_process_running: the cached entry is returned unverified
is_process_running_noverify(tbl, cache, name) ==
    IF name = "" THEN [proc |-> 0, cache |-> cache]
    ELSE LET key == Lower(name)
             m == Matches(tbl, key)
         IN IF cache[key] # 0 THEN [proc |-> cache[key], cache |-> cache]
            ELSE IF m # {} THEN [proc |-> Min(m), cache |-> [cache EXCEPT ![key] = Min(m)]]
            ELSE [proc |-> 0, cache |-> cache]

\* is_process_running(name): the process found (0 for None) and the cache after
is_process_running(tbl, cache, name) ==
    IF name = "" THEN [proc |-> 0, cache |-> cache]
    ELSE LET key == Lower(name)
             hit == cache[key] # 0 /\ tbl[cache[key]].st = "alive"
             c1 == IF cache[key] # 0 /\ ~hit THEN [cache EXCEPT ![key] = 0] ELSE cache
             m == Matches(tbl, key)
         IN IF hit THEN [proc |-> cache[key], cache |-> cache]
            ELSE IF m # {} THEN [proc |-> Min(m), cache |-> [c1 EXCEPT ![key] = Min(m)]]
            ELSE [proc |-> 0, cache |-> c1]

\* the entries the loop of refresh_process_cache gets to see: process_iter
\* yields the processes in pid order, and an exception that leaves the iterator
\* at entry stop (0: none) ends the loop, the try block enclosing the whole
\* for statement (lines 102-107)
Seen(tbl, key, stop) == {i \in Matches(tbl, key) : stop = 0 \/ i < stop}

\* a mutant of refresh_process_cache: the time test is strict
refresh_process_cache_strict(tbl, cache, last, now, force, stop) ==
    IF force \/ (now - last) > cache_timeout
    THEN [cache |-> [k \in Keys |-> IF Seen(tbl, k, stop) = {} THEN 0
                                    ELSE Max(Seen(tbl, k, stop))],
          last |-> now]
    ELSE [cache |-> cache, last |-> last]

\* refresh_process_cache(force): the cache and the last-refresh time after;
\* a later entry of the same name overwrites an earlier one
refresh_process_cache(tbl, cache, last, now, force, stop) ==
    IF force \/ (now - last) >= cache_timeout
    THEN [cache |-> [k \in Keys |-> IF Seen(tbl, k, stop) = {} THEN 0
                                    ELSE Max(Seen(tbl, k, stop))],
          last |-> now]
    ELSE [cache |-> cache, last |-> last]

\* kill_process(name): dies is whether the OS has already removed the process
\* when TerminateProcess returns
kill_process(tbl, cache, name, dies) ==
    LET l == is_process_running(tbl, cache, name)
        p == l.proc
    IN IF p = 0 THEN [ok |-> FALSE, tried |-> 0, tbl |-> tbl, cache |-> l.cache]
       ELSE IF "kill" \in tbl[p].acc
            THEN [ok |-> TRUE, tried |-> 1,
                  tbl |-> [tbl EXCEPT ![p].st = IF dies THEN "dead" ELSE "alive"],
                  cache |-> [l.cache EXCEPT ![Lower(name)] = 0]]
            ELSE [ok |-> FALSE, tried |-> 1, tbl |-> tbl, cache |-> l.cache]

\* a mutant of add_message: the message is queued twice
add_message_twice(q, notif, msg) == IF notif THEN Append(Append(q, msg), msg) ELSE q

\* a mutant of add_message: the message is queued whatever the notification flag
add_message_always(q, notif, msg) == Append(q, msg)

\* add_message(message)
add_message(q, notif, msg) == IF notif THEN Append(q, msg) ELSE q

\* message_queue = queue.Queue(): no maxsize is given, so the queue is unbounded
queue_maxsize == 0
\* Queue.put(message) with the default block=True waits only while a bounded
\* queue is full
put_waits(q) == queue_maxsize > 0 /\ Len(q) >= queue_maxsize

NoProcOp == [op |-> "none", name |-> "", found |-> 0, cachedBefore |-> 0,
             staleBefore |-> FALSE, foundAlive |-> FALSE, foundName |-> "",
             flagBefore |-> FALSE, attempts |-> 0, killed |-> FALSE, enq |-> 0,
             notif |-> FALSE, optimized |-> FALSE, tuned |-> FALSE, waits |-> FALSE,
             affBefore |-> {}, prioBefore |-> "", accBefore |-> {},
             prevAbsent |-> FALSE, failedRun |-> FALSE, prevFailed |-> 0,
             force |-> FALSE, raisedAt |-> 0, flip |-> FALSE]

\* the UI thread or a monitor asks is_process_running(name)
Lookup(name) ==
    LET l == is_process_running(procs, process_cache, name)
        key == Lower(name)
        old == IF name = "" THEN 0 ELSE process_cache[key]
    IN /\ process_cache' = l.cache
       /\ procLast' = [NoProcOp EXCEPT !.op = "lookup", !.name = name, !.found = l.proc,
                          !.cachedBefore = old,
                          !.staleBefore = (old # 0 /\ procs[old].st # "alive"),
                          !.foundAlive = (l.proc # 0 /\ procs[l.proc].st = "alive"),
                          !.foundName = IF l.proc # 0 THEN procs[l.proc].name ELSE ""]
       /\ UNCHANGED <<procs, nextId, procNow, last_cache_refresh, running,
                      show_notifications, anticheat_killed, scanprocess_optimized,
                      message_queue, acePc, scanPc, aceCounter, scanCounter, cores>>
    /\ UNCHANGED walk

\* a mutant of handled_after: a failed termination leaves the flag down
handled_after_retry(found, flag, ok) ==
    IF found THEN (IF ~flag THEN ok ELSE flag) ELSE FALSE

\* the handled flag after one pass of monitor_acetray_process (lines 486-499):
\* both outcomes of the termination attempt raise it, absence lowers it
handled_after(found, flag, ok) ==
    IF found THEN (IF ~flag THEN (IF ok THEN TRUE ELSE TRUE) ELSE flag) ELSE FALSE

\* the body of one iteration of monitor_acetray_process (lines 479-502); dies
\* is whether a terminated process is gone at once; next is where the thread
\* stands afterwards
AceBody(dies, next) ==
    LET r == IF aceCounter % REFRESH_EVERY = 0
             THEN refresh_process_cache(procs, process_cache, last_cache_refresh,
                                        procNow, FALSE, 0)
             ELSE [cache |-> process_cache, last |-> last_cache_refresh]
        l == is_process_running(procs, r.cache, anticheat_name)
        k == kill_process(procs, l.cache, anticheat_name, dies)
        attempt == l.proc # 0 /\ ~anticheat_killed
        q == IF attempt /\ k.ok
             THEN add_message(message_queue, show_notifications, "killed")
             ELSE message_queue
    IN /\ acePc' = next
       /\ aceCounter' = (aceCounter + 1) % REFRESH_EVERY
       /\ last_cache_refresh' = r.last
       /\ procs' = IF attempt THEN k.tbl ELSE procs
       /\ process_cache' = IF attempt THEN k.cache ELSE l.cache
       /\ anticheat_killed' = handled_after(l.proc # 0, anticheat_killed, k.ok)
       /\ message_queue' = q
       /\ procLast' = [NoProcOp EXCEPT !.op = "ace_poll", !.name = anticheat_name,
                          !.found = l.proc, !.flagBefore = anticheat_killed,
                          !.attempts = IF attempt THEN k.tried ELSE 0,
                          !.killed = attempt /\ k.ok,
                          !.enq = Len(q) - Len(message_queue),
                          !.notif = show_notifications,
                          !.prevAbsent = (procLast.op = "ace_poll" /\ procLast.found = 0),
                          !.failedRun =
                              \/ (attempt /\ k.tried = 1 /\ ~k.ok)
                              \/ (/\ procLast.op = "ace_poll"
                                  /\ procLast.failedRun
                                  /\ l.proc # 0)]

\* one iteration of monitor_acetray_process (lines 478-502)
AcePoll ==
    /\ acePc = "loop"
    /\ Len(message_queue) < MaxQueue
    /\ IF ~running
       THEN /\ acePc' = "done"
            /\ UNCHANGED <<procs, process_cache, last_cache_refresh, anticheat_killed,
                           message_queue, aceCounter, procLast>>
       ELSE \E dies \in BOOLEAN : AceBody(dies, "loop")
    /\ UNCHANGED <<nextId, procNow, running, show_notifications, scanprocess_optimized,
                   scanPc, scanCounter, cores>>
    /\ UNCHANGED walk

\* check_process_status(name) with n = psutil.cpu_count(): (running, optimized);
\* fault says that a step of the checks raised an exception other than
\* NoSuchProcess and AccessDenied (psutil.cpu_count() returning None makes
\* `cores > 0` raise TypeError), which the outer handler (lines 464-467) turns
\* into "optimized"
check_process_status(tbl, cache, name, n, fault) ==
    LET l == is_process_running(tbl, cache, name)
        p == l.proc
    IN IF p = 0 THEN [running |-> FALSE, optimized |-> FALSE, cache |-> l.cache, proc |-> 0]
       ELSE LET aff == tbl[p].affinity
                cpu_affinity_optimized ==
                    IF "readaff" \notin tbl[p].acc THEN TRUE
                    ELSE n > 0 /\ (Cardinality(aff) = 1 \/ (n - 1) \in aff)
                priority_optimized == tbl[p].prio \in {"Idle", "BelowNormal"}
                is_optimized ==
                    IF Lower(name) # Lower(scanprocess_name) THEN FALSE
                    ELSE IF fault THEN TRUE
                    ELSE IF "readprio" \notin tbl[p].acc THEN TRUE
                    ELSE priority_optimized \/ cpu_affinity_optimized
            IN [running |-> TRUE, optimized |-> is_optimized, cache |-> l.cache, proc |-> p]

\* set_process_priority_and_affinity(name): Idle priority, last core, EcoQoS;
\* eco is whether SetProcessInformation succeeds (its result is not looked at)
set_process_priority_and_affinity(tbl, cache, name, n, eco) ==
    LET l == is_process_running(tbl, cache, name)
        p == l.proc
    IN IF p = 0 THEN [ok |-> FALSE, tried |-> 0, tbl |-> tbl, cache |-> l.cache]
       ELSE IF "open" \notin tbl[p].acc
            THEN [ok |-> FALSE, tried |-> 1, tbl |-> tbl, cache |-> l.cache]
       ELSE IF n > 0 /\ "setaff" \notin tbl[p].acc
            THEN [ok |-> FALSE, tried |-> 1, tbl |-> [tbl EXCEPT ![p].prio = "Idle"],
                  cache |-> l.cache]
       ELSE [ok |-> TRUE, tried |-> 1,
             tbl |-> [tbl EXCEPT ![p].prio = "Idle",
                                 ![p].affinity = IF n > 0 THEN {n - 1} ELSE @,
                                 ![p].throttle = IF eco THEN TRUE ELSE @],
             cache |-> l.cache]

\* a mutant of optimized_after: a failed tuning raises the flag as well
optimized_after_failed(run, opt, ok, flag) ==
    IF run THEN (IF opt THEN (IF ~flag THEN TRUE ELSE flag) ELSE TRUE)
    ELSE (IF flag THEN FALSE ELSE flag)

\* the optimized flag after one pass of monitor_sguard_process (lines 519-535)
optimized_after(run, opt, ok, flag) ==
    IF run THEN (IF opt THEN (IF ~flag THEN TRUE ELSE flag)
                 ELSE (IF ok THEN TRUE ELSE flag))
    ELSE (IF flag THEN FALSE ELSE flag)

\* the body of one iteration of monitor_sguard_process (lines 511-538); eco is
\* whether SetProcessInformation succeeds, fault the outer handler of the check
ScanBody(eco, fault, next) ==
    LET r == IF scanCounter % REFRESH_EVERY = 0
             THEN refresh_process_cache(procs, process_cache, last_cache_refresh,
                                        procNow, FALSE, 0)
             ELSE [cache |-> process_cache, last |-> last_cache_refresh]
        c == check_process_status(procs, r.cache, scanprocess_name, cores, fault)
        t == set_process_priority_and_affinity(procs, c.cache, scanprocess_name,
                                               cores, eco)
        tune == c.running /\ ~c.optimized
        q == IF tune /\ t.ok
             THEN add_message(message_queue, show_notifications, "optimized")
             ELSE message_queue
    IN /\ scanPc' = next
       /\ scanCounter' = (scanCounter + 1) % REFRESH_EVERY
       /\ last_cache_refresh' = r.last
       /\ procs' = IF tune THEN t.tbl ELSE procs
       /\ process_cache' = IF tune THEN t.cache ELSE c.cache
       /\ scanprocess_optimized' =
             optimized_after(c.running, c.optimized, t.ok, scanprocess_optimized)
       /\ message_queue' = q
       /\ procLast' = [NoProcOp EXCEPT !.op = "scan_poll", !.name = scanprocess_name,
                          !.found = c.proc, !.flagBefore = scanprocess_optimized,
                          !.optimized = c.optimized,
                          !.attempts = IF tune THEN t.tried ELSE 0,
                          !.tuned = tune /\ t.ok,
                          !.enq = Len(q) - Len(message_queue),
                          !.notif = show_notifications,
                          !.affBefore = IF c.proc # 0 THEN procs[c.proc].affinity ELSE {},
                          !.prioBefore = IF c.proc # 0 THEN procs[c.proc].prio ELSE "",
                          !.accBefore = IF c.proc # 0 THEN procs[c.proc].acc ELSE {},
                          !.prevAbsent = (procLast.op = "scan_poll" /\ procLast.found = 0),
                          !.failedRun = (tune /\ t.tried = 1 /\ ~t.ok),
                          !.prevFailed = IF /\ procLast.op = "scan_poll"
                                            /\ procLast.failedRun
                                         THEN procLast.found ELSE 0]

\* one iteration of monitor_sguard_process (lines 510-538)
ScanPoll ==
    /\ scanPc = "loop"
    /\ Len(message_queue) < MaxQueue
    /\ IF ~running
       THEN /\ scanPc' = "done"
            /\ UNCHANGED <<procs, process_cache, last_cache_refresh, scanprocess_optimized,
                           message_queue, scanCounter, procLast>>
       ELSE \E eco \in BOOLEAN, fault \in BOOLEAN : ScanBody(eco, fault, "loop")
    /\ UNCHANGED <<nextId, procNow, running, show_notifications, anticheat_killed,
                   acePc, aceCounter, cores>>
    /\ UNCHANGED walk

\* Thread.is_alive(): true from start() until the thread's function has
\* returned, so also for a thread that has left its while loop ("exiting")
MonAlive(pc) == pc \in {"loop", "head", "body", "sleep", "exiting"}

\* a thread that is still inside its while loop, so will poll again
MonAlive_polling(pc) == pc \in {"loop", "head", "body", "sleep"}

\* start_monitors(): raise the flag, start the threads that are not alive
\* (a new thread stands at entry), and check the services once
StartMonitorsAt(scms, entry) ==
    /\ running' = TRUE
    /\ acePc' = IF MonAlive(acePc) THEN acePc ELSE entry
    /\ aceCounter' = IF MonAlive(acePc) THEN aceCounter ELSE 0
    /\ scanPc' = IF MonAlive(scanPc) THEN scanPc ELSE entry
    /\ scanCounter' = IF MonAlive(scanPc) THEN scanCounter ELSE 0
    /\ \E scmf \in scms :
          LET r == monitor_anticheat_service(SvcState, svcOS, scmf, svcNow)
          IN /\ service_cache' = r.cache
             /\ svcLastOs' = r.lastOs
             /\ svcLast' = r.last
    /\ UNCHANGED <<procs, nextId, procNow, process_cache, last_cache_refresh,
                   show_notifications, anticheat_killed, scanprocess_optimized,
                   message_queue, cores, procLast, svcNow, svcOS>>
    /\ UNCHANGED walk

StartMonitors(scms) == StartMonitorsAt(scms, "loop")

\* stop_monitors()
StopMonitors ==
    /\ running' = FALSE
    /\ anticheat_killed' = FALSE
    /\ scanprocess_optimized' = FALSE
    /\ procLast' = [NoProcOp EXCEPT !.op = "stop"]
    /\ UNCHANGED <<procs, nextId, procNow, process_cache, last_cache_refresh,
                   show_notifications, message_queue, acePc, scanPc, aceCounter,
                   scanCounter, cores>>
    /\ UNCHANGED walk

\* The monitor threads statement by statement: "while self.running:" is
\* tested at "head", the body runs at "body" whatever the flag has become
\* since, time.sleep(2) is "sleep", and a thread that found the flag down is
\* "exiting" until its function has returned
Monitors == {"ace", "scan"}
MonPc(m) == IF m = "ace" THEN acePc ELSE scanPc

\* the pc of monitor m becomes to; everything but the pcs is left alone
MonMove(m, to) ==
    /\ acePc' = IF m = "ace" THEN to ELSE acePc
    /\ scanPc' = IF m = "scan" THEN to ELSE scanPc
    /\ UNCHANGED <<procs, nextId, procNow, process_cache, last_cache_refresh, running,
                   show_notifications, anticheat_killed, scanprocess_optimized,
                   message_queue, aceCounter, scanCounter, cores, procLast>>
    /\ UNCHANGED walk

\* "while self.running:" (lines 478 and 510)
MonHead(m) ==
    /\ MonPc(m) = "head"
    /\ MonMove(m, IF running THEN "body" ELSE "exiting")

\* the body of an iteration of the popup monitor, begun after the while test
AceWork ==
    /\ acePc = "body"
    /\ Len(message_queue) < MaxQueue
    /\ \E dies \in BOOLEAN : AceBody(dies, "sleep")
    /\ UNCHANGED <<nextId, procNow, running, show_notifications, scanprocess_optimized,
                   scanPc, scanCounter, cores>>
    /\ UNCHANGED walk

\* the body of an iteration of the scanner monitor, begun after the while test
ScanWork ==
    /\ scanPc = "body"
    /\ Len(message_queue) < MaxQueue
    /\ \E eco \in BOOLEAN, fault \in BOOLEAN : ScanBody(eco, fault, "sleep")
    /\ UNCHANGED <<nextId, procNow, running, show_notifications, anticheat_killed,
                   acePc, aceCounter, cores>>
    /\ UNCHANGED walk

\* time.sleep(2) returns
MonSleep(m) ==
    /\ MonPc(m) = "sleep"
    /\ MonMove(m, "head")

\* the thread's function returns: the thread is no longer alive
MonExit(m) ==
    /\ MonPc(m) = "exiting"
    /\ MonMove(m, "done")

\* the user switches notifications on or off
ToggleNotifications ==
    /\ show_notifications' = ~show_notifications
    /\ UNCHANGED <<procs, nextId, procNow, process_cache, last_cache_refresh, running,
                   anticheat_killed, scanprocess_optimized, message_queue, acePc, scanPc,
                   aceCounter, scanCounter, cores, procLast>>
    /\ UNCHANGED walk

\* a monitor loop calls add_message(msg) (lines 492 and 531)
Notify(msgs) ==
    /\ \E msg \in msgs :
          LET q == add_message(message_queue, show_notifications, msg)
          IN /\ message_queue' = q
             /\ procLast' = [NoProcOp EXCEPT !.op = "add_message", !.name = msg,
                                !.enq = Len(q) - Len(message_queue),
                                !.notif = show_notifications,
                                !.waits = (show_notifications /\ put_waits(message_queue))]
    /\ UNCHANGED <<procs, nextId, procNow, process_cache, last_cache_refresh, running,
                   show_notifications, anticheat_killed, scanprocess_optimized, acePc,
                   scanPc, aceCounter, scanCounter, cores>>
    /\ UNCHANGED walk

\* the notification collaborator takes the oldest message
Consume ==
    /\ message_queue # <<>>
    /\ message_queue' = Tail(message_queue)
    /\ UNCHANGED <<procs, nextId, procNow, process_cache, last_cache_refresh, running,
                   show_notifications, anticheat_killed, scanprocess_optimized, acePc,
                   scanPc, aceCounter, scanCounter, cores, procLast>>
    /\ UNCHANGED walk

\* the OS starts a process
Spawn(names, affs, prios, accs) ==
    /\ nextId <= MaxProcs
    /\ \E nm \in names, af \in affs, pr \in prios, ac \in accs :
          procs' = [procs EXCEPT ![nextId] =
                       [name |-> nm, st |-> "alive", affinity |-> af, prio |-> pr,
                        throttle |-> FALSE, acc |-> ac]]
    /\ nextId' = nextId + 1
    /\ UNCHANGED <<procNow, process_cache, last_cache_refresh, running,
                   show_notifications, anticheat_killed, scanprocess_optimized,
                   message_queue, acePc, scanPc, aceCounter, scanCounter, cores, procLast>>
    /\ UNCHANGED walk

\* a process ends by itself
ProcExit ==
    /\ \E i \in Ids :
          /\ procs[i].st = "alive"
          /\ procs' = [procs EXCEPT ![i].st = "dead"]
    /\ UNCHANGED <<nextId, procNow, process_cache, last_cache_refresh, running,
                   show_notifications, anticheat_killed, scanprocess_optimized,
                   message_queue, acePc, scanPc, aceCounter, scanCounter, cores, procLast>>
    /\ UNCHANGED walk

ProcTick ==
    /\ \E d \in ProcSteps :
          /\ procNow + d <= MaxProcTime
          /\ procNow' = procNow + d
    /\ UNCHANGED <<procs, nextId, process_cache, last_cache_refresh, running,
                   show_notifications, anticheat_killed, scanprocess_optimized,
                   message_queue, acePc, scanPc, aceCounter, scanCounter, cores, procLast>>
    /\ UNCHANGED walk

\* a caller runs refresh_process_cache(force); the enumeration may raise at
\* one of the running processes
Refresh(forces) ==
    /\ \E force \in forces, stop \in {0} \cup {i \in Ids : procs[i].st = "alive"} :
          LET r == refresh_process_cache(procs, process_cache, last_cache_refresh,
                                         procNow, force, stop)
          IN /\ process_cache' = r.cache
             /\ last_cache_refresh' = r.last
             /\ procLast' = [NoProcOp EXCEPT !.op = "refresh", !.force = force,
                                             !.raisedAt = stop,
                                             !.flip = ~procLast.flip]
    /\ UNCHANGED <<procs, nextId, procNow, running, show_notifications, anticheat_killed,
                   scanprocess_optimized, message_queue, acePc, scanPc, aceCounter,
                   scanCounter, cores>>
    /\ UNCHANGED walk

\* the clock of the process monitor advances by one of the given steps
ProcTickBy(steps, max) ==
    /\ \E d \in steps :
          /\ procNow + d <= max
          /\ procNow' = procNow + d
    /\ UNCHANGED <<procs, nextId, process_cache, last_cache_refresh, running,
                   show_notifications, anticheat_killed, scanprocess_optimized,
                   message_queue, acePc, scanPc, aceCounter, scanCounter, cores, procLast>>
    /\ UNCHANGED walk

(***************************************************************************)
(* The cache functions statement by statement: the popup monitor thread    *)
(* and the UI thread share self.process_cache and no lock is taken         *)
(***************************************************************************)
Threads == {"ace", "ui"}
\* pc: the statement the thread is at; ret: who called is_process_running;
\* proc: the local proc; cur: current_time of refresh_process_cache; res: what
\* the lookup returns; err: the exception that left the thread's function;
\* exit: why the monitor thread ended
IdleWalk == [pc |-> "top", ret |-> "none", name |-> "", proc |-> 0, cur |-> 0,
             res |-> 0, resAlive |-> TRUE, err |-> "none", exit |-> "none"]

ThreadAlive(t) == IF t = "ace" THEN acePc = "loop" ELSE TRUE

\* "while self.running:" and the check_counter test of monitor_acetray_process
WTop ==
    /\ acePc = "loop" /\ walk["ace"].pc = "top"
    /\ IF ~running
       THEN /\ walk' = [walk EXCEPT !["ace"] = [IdleWalk EXCEPT !.exit = "stop"]]
            /\ acePc' = "done"
            /\ UNCHANGED aceCounter
       ELSE /\ walk' = [walk EXCEPT !["ace"] =
                          [IdleWalk EXCEPT !.pc = IF aceCounter % REFRESH_EVERY = 0
                                                  THEN "refresh" ELSE "lookup",
                                           !.ret = "poll", !.name = anticheat_name]]
            /\ aceCounter' = (aceCounter + 1) % REFRESH_EVERY
            /\ UNCHANGED acePc
    /\ UNCHANGED <<procs, nextId, procNow, process_cache, last_cache_refresh, running,
                   show_notifications, anticheat_killed, scanprocess_optimized,
                   message_queue, scanPc, scanCounter, cores, procLast>>

\* refresh_process_cache, lines 99-101: the time test and process_cache.clear()
WRefresh(t) ==
    /\ ThreadAlive(t) /\ walk[t].pc = "refresh"
    /\ IF procNow - last_cache_refresh >= cache_timeout
       THEN /\ process_cache' = [k \in Keys |-> 0]
            /\ walk' = [walk EXCEPT ![t].pc = "fill", ![t].cur = procNow]
       ELSE /\ walk' = [walk EXCEPT ![t].pc = "lookup"]
            /\ UNCHANGED process_cache
    /\ UNCHANGED <<procs, nextId, procNow, last_cache_refresh, running,
                   show_notifications, anticheat_killed, scanprocess_optimized,
                   message_queue, acePc, scanPc, aceCounter, scanCounter, cores, procLast>>

\* refresh_process_cache, lines 102-108: the process_iter loop and the time stamp
WFill(t) ==
    /\ ThreadAlive(t) /\ walk[t].pc = "fill"
    /\ process_cache' = [k \in Keys |-> IF Matches(procs, k) = {} THEN process_cache[k]
                                        ELSE Max(Matches(procs, k))]
    /\ last_cache_refresh' = walk[t].cur
    /\ walk' = [walk EXCEPT ![t].pc = "lookup", ![t].cur = 0]
    /\ UNCHANGED <<procs, nextId, procNow, running, show_notifications, anticheat_killed,
                   scanprocess_optimized, message_queue, acePc, scanPc, aceCounter,
                   scanCounter, cores, procLast>>

\* the UI thread calls is_process_running(name)
WQuery(names) ==
    /\ walk["ui"].pc = "top"
    /\ \E n \in names :
          walk' = [walk EXCEPT !["ui"] = [IdleWalk EXCEPT !.pc = "lookup", !.ret = "ui",
                                                          !.name = n]]
    /\ UNCHANGED <<procs, nextId, procNow, process_cache, last_cache_refresh, running,
                   show_notifications, anticheat_killed, scanprocess_optimized,
                   message_queue, acePc, scanPc, aceCounter, scanCounter, cores, procLast>>

\* is_process_running, line 122: "if process_name_lower in self.process_cache"
WLookup(t) ==
    /\ ThreadAlive(t) /\ walk[t].pc = "lookup"
    /\ walk' = [walk EXCEPT ![t].pc = IF process_cache[Lower(walk[t].name)] # 0
                                      THEN "get" ELSE "iterate"]
    /\ UNCHANGED <<procs, nextId, procNow, process_cache, last_cache_refresh, running,
                   show_notifications, anticheat_killed, scanprocess_optimized,
                   message_queue, acePc, scanPc, aceCounter, scanCounter, cores, procLast>>

\* a KeyError leaves the function thread t is in: the monitor loop has no
\* handler and its thread ends, the UI query fails
WKeyError(t) ==
    /\ walk' = [walk EXCEPT ![t] =
                  [IdleWalk EXCEPT !.err = "KeyError",
                                   !.exit = IF t = "ace" THEN "exception" ELSE "none"]]
    /\ acePc' = IF t = "ace" THEN "done" ELSE acePc

\* is_process_running, line 123: "proc = self.process_cache[process_name_lower]"
WGet(t) ==
    /\ ThreadAlive(t) /\ walk[t].pc = "get"
    /\ IF process_cache[Lower(walk[t].name)] = 0
       THEN WKeyError(t)
       ELSE /\ walk' = [walk EXCEPT ![t].pc = "verify",
                                    ![t].proc = process_cache[Lower(walk[t].name)]]
            /\ UNCHANGED acePc
    /\ UNCHANGED <<procs, nextId, procNow, process_cache, last_cache_refresh, running,
                   show_notifications, anticheat_killed, scanprocess_optimized,
                   message_queue, scanPc, aceCounter, scanCounter, cores, procLast>>

\* is_process_running, lines 125-126: "if proc.is_running(): return proc"
WVerify(t) ==
    /\ ThreadAlive(t) /\ walk[t].pc = "verify"
    /\ walk' = IF procs[walk[t].proc].st = "alive"
               THEN [walk EXCEPT ![t].pc = "return", ![t].res = walk[t].proc,
                                 ![t].resAlive = (procs[walk[t].proc].st = "alive")]
               ELSE [walk EXCEPT ![t].pc = "evict", ![t].proc = 0]
    /\ UNCHANGED <<procs, nextId, procNow, process_cache, last_cache_refresh, running,
                   show_notifications, anticheat_killed, scanprocess_optimized,
                   message_queue, acePc, scanPc, aceCounter, scanCounter, cores, procLast>>

\* is_process_running, lines 128-130: "del self.process_cache[process_name_lower]"
WEvict(t) ==
    /\ ThreadAlive(t) /\ walk[t].pc = "evict"
    /\ IF process_cache[Lower(walk[t].name)] = 0
       THEN WKeyError(t) /\ UNCHANGED process_cache
       ELSE /\ process_cache' = [process_cache EXCEPT ![Lower(walk[t].name)] = 0]
            /\ walk' = [walk EXCEPT ![t].pc = "iterate"]
            /\ UNCHANGED acePc
    /\ UNCHANGED <<procs, nextId, procNow, last_cache_refresh, running,
                   show_notifications, anticheat_killed, scanprocess_optimized,
                   message_queue, scanPc, aceCounter, scanCounter, cores, procLast>>

\* is_process_running, lines 133-145: the process_iter loop, the store and the return
WIterate(t) ==
    /\ ThreadAlive(t) /\ walk[t].pc = "iterate"
    /\ LET key == Lower(walk[t].name)
           m == Matches(procs, key)
       IN IF m # {}
          THEN /\ process_cache' = [process_cache EXCEPT ![key] = Min(m)]
               /\ walk' = [walk EXCEPT ![t].pc = "return", ![t].res = Min(m),
                                       ![t].resAlive = (procs[Min(m)].st = "alive")]
          ELSE /\ walk' = [walk EXCEPT ![t].pc = "return", ![t].res = 0]
               /\ UNCHANGED process_cache
    /\ UNCHANGED <<procs, nextId, procNow, last_cache_refresh, running,
                   show_notifications, anticheat_killed, scanprocess_optimized,
                   message_queue, acePc, scanPc, aceCounter, scanCounter, cores, procLast>>

\* the caller of is_process_running goes on with the process returned: the UI
\* query ends; the popup loop (lines 485-499) calls kill_process or sets the
\* flag and sleeps; kill_process (lines 306-307) goes to proc.kill()
WReturn(t) ==
    /\ ThreadAlive(t) /\ walk[t].pc = "return"
    /\ LET p == walk[t].res
           r == walk[t].ret
       IN CASE r = "ui" ->
                 /\ walk' = [walk EXCEPT ![t] = IdleWalk]
                 /\ UNCHANGED anticheat_killed
            [] r = "poll" ->
                 /\ walk' = IF p # 0 /\ ~anticheat_killed
                            THEN [walk EXCEPT ![t].pc = "lookup", ![t].ret = "kill_process",
                                              ![t].res = 0]
                            ELSE [walk EXCEPT ![t] = IdleWalk]
                 /\ anticheat_killed' = IF p = 0 THEN FALSE ELSE anticheat_killed
            [] OTHER ->
                 /\ walk' = IF p # 0
                            THEN [walk EXCEPT ![t].pc = "kill", ![t].proc = p, ![t].res = 0]
                            ELSE [walk EXCEPT ![t] = IdleWalk]
                 /\ anticheat_killed' = IF p = 0 THEN TRUE ELSE anticheat_killed
    /\ UNCHANGED <<procs, nextId, procNow, process_cache, last_cache_refresh, running,
                   show_notifications, scanprocess_optimized, message_queue, acePc,
                   scanPc, aceCounter, scanCounter, cores, procLast>>

\* kill_process, lines 308-309: proc.kill(); NoSuchProcess and AccessDenied are
\* caught (line 314) and the popup loop marks the process as handled
WKill(t) ==
    /\ ThreadAlive(t) /\ walk[t].pc = "kill"
    /\ LET p == walk[t].proc
       IN IF procs[p].st = "alive" /\ "kill" \in procs[p].acc
          THEN /\ \E dies \in BOOLEAN :
                     procs' = [procs EXCEPT ![p].st = IF dies THEN "dead" ELSE "alive"]
               /\ walk' = [walk EXCEPT ![t].pc = "kill_in"]
               /\ UNCHANGED anticheat_killed
          ELSE /\ walk' = [walk EXCEPT ![t] = IdleWalk]
               /\ anticheat_killed' = TRUE
               /\ UNCHANGED procs
    /\ UNCHANGED <<nextId, procNow, process_cache, last_cache_refresh, running,
                   show_notifications, scanprocess_optimized, message_queue, acePc,
                   scanPc, aceCounter, scanCounter, cores, procLast>>

\* kill_process, line 311: "if process_name.lower() in self.process_cache";
\* without the key kill_process returns True and the loop reports (lines 491-492)
WKillIn(t) ==
    /\ ThreadAlive(t) /\ walk[t].pc = "kill_in"
    /\ IF process_cache[Lower(walk[t].name)] # 0
       THEN /\ walk' = [walk EXCEPT ![t].pc = "kill_del"]
            /\ UNCHANGED <<anticheat_killed, message_queue>>
       ELSE /\ Len(message_queue) < MaxQueue
            /\ walk' = [walk EXCEPT ![t] = IdleWalk]
            /\ anticheat_killed' = TRUE
            /\ message_queue' = add_message(message_queue, show_notifications, "killed")
    /\ UNCHANGED <<procs, nextId, procNow, process_cache, last_cache_refresh, running,
                   show_notifications, scanprocess_optimized, acePc, scanPc, aceCounter,
                   scanCounter, cores, procLast>>

\* kill_process, line 312: "del self.process_cache[process_name.lower()]"; the
\* except clause of line 314 does not catch a KeyError
WKillDel(t) ==
    /\ ThreadAlive(t) /\ walk[t].pc = "kill_del"
    /\ IF process_cache[Lower(walk[t].name)] = 0
       THEN /\ WKeyError(t)
            /\ UNCHANGED <<process_cache, anticheat_killed, message_queue>>
       ELSE /\ Len(message_queue) < MaxQueue
            /\ process_cache' = [process_cache EXCEPT ![Lower(walk[t].name)] = 0]
            /\ walk' = [walk EXCEPT ![t] = IdleWalk]
            /\ anticheat_killed' = TRUE
            /\ message_queue' = add_message(message_queue, show_notifications, "killed")
            /\ UNCHANGED acePc
    /\ UNCHANGED <<procs, nextId, procNow, last_cache_refresh, running,
                   show_notifications, scanprocess_optimized, scanPc, aceCounter,
                   scanCounter, cores, procLast>>

ParkProc ==
    /\ procs = [i \in Ids |-> Unborn]
    /\ nextId = 1
    /\ procNow = ProcT0
    /\ process_cache = [k \in Keys |-> 0]
    /\ last_cache_refresh = 0
    /\ running = FALSE
    /\ show_notifications = TRUE
    /\ anticheat_killed = FALSE
    /\ scanprocess_optimized = FALSE
    /\ message_queue = <<>>
    /\ acePc = "none"
    /\ scanPc = "none"
    /\ aceCounter = 0
    /\ scanCounter = 0
    /\ cores = MaxCores
    /\ procLast = NoProcOp
    /\ walk = [t \in Threads |-> IdleWalk]

(***************************************************************************)
(* MemoryCleanerManager: the scheduler thread and its switches              *)
(***************************************************************************)
MaxThreads == 2
MemT0 == 1000
MaxMemTime == 1062
SLEEP_SLICES == 15
NUM_SWITCHES == 6

\* seconds that may pass between two events of the scheduler
MemSteps == {30, 31}
\* memory utilisation (percent) the OS may report
MemPercents == {50, 80}
\* the switches the user toggles in the model
OptionIdx == {0, 3, 4}
Switches == 0..(NUM_SWITCHES - 1)

ThreadIds == 1..MaxThreads
NoThread == [pc |-> "none", cur |-> 0, last_clean_time |-> 0, wake |-> 0,
             born |-> 0, pct |-> 0]
NoRound == [kind |-> "none", ops |-> <<>>, fixT |-> 0,
            thrN |-> 0, thrT |-> 0, thrPrev |-> 0, thrCd |-> 0]

any(sw) == \E i \in DOMAIN sw : sw[i]

\* the operations a round invokes for the switches a, b, c, in that order
RoundOps(sw, a, b, c) ==
    (IF sw[a] THEN <<"trim">> ELSE <<>>) \o
    (IF sw[b] THEN <<"flush">> ELSE <<>>) \o
    (IF sw[c] THEN <<"clean_all">> ELSE <<>>)

\* line 550: the cooldown has passed
CooldownPassed(cur, last, cd) == cur - last > cd

\* line 529: the fixed interval has passed
IntervalPassed(cur, last, iv) == cur - last > iv

FreeThreads == {i \in ThreadIds : threads[i].pc = "none"}

\* a mutant of check_should_run_thread: a running scheduler is never stopped
check_should_run_thread_nostop(en, sw) ==
    IF en /\ any(sw) /\ ~mc_running
    THEN /\ FreeThreads # {}
         /\ mc_running' = TRUE
         /\ threads' = [threads EXCEPT ![Min(FreeThreads)] =
                           [pc |-> "loop", cur |-> 0, last_clean_time |-> memNow,
                            wake |-> 0, born |-> memNow, pct |-> 0]]
    ELSE UNCHANGED <<mc_running, threads>>

\* _check_should_run_thread() with start_cleaner_thread / stop_cleaner_thread,
\* for the values en and sw of enabled and clean_switches
check_should_run_thread(en, sw) ==
    LET should_run == en /\ any(sw)
    IN IF should_run /\ ~mc_running
       THEN /\ FreeThreads # {}
            /\ mc_running' = TRUE
            /\ threads' = [threads EXCEPT ![Min(FreeThreads)] =
                              [pc |-> "loop", cur |-> 0, last_clean_time |-> memNow,
                               wake |-> 0, born |-> memNow, pct |-> 0]]
       ELSE IF ~should_run /\ mc_running
       THEN /\ mc_running' = FALSE
            /\ UNCHANGED threads
       ELSE UNCHANGED <<mc_running, threads>>

\* set_clean_option(option_index, enabled)
SetCleanOption ==
    /\ \E i \in OptionIdx :
          LET sw == [clean_switches EXCEPT ![i] = ~clean_switches[i]]
          IN /\ clean_switches' = sw
             /\ check_should_run_thread(mc_enabled, sw)
    /\ UNCHANGED <<memNow, mc_enabled, cooldown_time, clean_interval, threshold,
                   last_threshold_clean, memLast>>

\* toggle_memory_cleanup(): the enabled flag is flipped
ToggleMemoryCleanup ==
    /\ mc_enabled' = ~mc_enabled
    /\ check_should_run_thread(~mc_enabled, clean_switches)
    /\ UNCHANGED <<memNow, clean_switches, cooldown_time, clean_interval, threshold,
                   last_threshold_clean, memLast>>

\* set_clean_interval(seconds): the value stored
set_clean_interval(seconds) == IF seconds < 60 THEN 60 ELSE seconds

\* set_memory_threshold(percent): the value stored
set_memory_threshold(percent) ==
    IF percent < 15 THEN 15 ELSE IF percent > 95 THEN 95 ELSE percent

\* set_cooldown_time(seconds): the value stored
set_cooldown_time(seconds) == IF seconds < 30 THEN 30 ELSE seconds

SetCleanInterval(vals) ==
    /\ \E v \in vals : clean_interval' = set_clean_interval(v)
    /\ UNCHANGED <<memNow, mc_enabled, clean_switches, mc_running, cooldown_time,
                   threshold, last_threshold_clean, threads, memLast>>

SetMemoryThreshold(vals) ==
    /\ \E v \in vals : threshold' = set_memory_threshold(v)
    /\ UNCHANGED <<memNow, mc_enabled, clean_switches, mc_running, cooldown_time,
                   clean_interval, last_threshold_clean, threads, memLast>>

SetCooldownTime(vals) ==
    /\ \E v \in vals : cooldown_time' = set_cooldown_time(v)
    /\ UNCHANGED <<memNow, mc_enabled, clean_switches, mc_running, clean_interval,
                   threshold, last_threshold_clean, threads, memLast>>

\* ConfigManager.load_config, lines 166-193: the memory_cleaner section of the
\* file f as the configuration manager holds it
load_config(f) ==
    [f EXCEPT !.interval = IF @ < 60 THEN 60 ELSE @,
              !.threshold = IF @ < 30 THEN 30 ELSE IF @ > 95 THEN 95 ELSE @,
              !.cooldown = IF @ < 30 THEN 30 ELSE @]

\* update_from_config_manager() on a configuration loaded from the file f
UpdateFromConfig(files) ==
    /\ \E f \in files :
          LET c == load_config(f)
          IN /\ mc_enabled' = c.enabled
             /\ brute_mode' = c.brute_mode
             /\ clean_switches' = c.switches
             /\ clean_interval' = (IF c.interval < 60 THEN 60 ELSE c.interval)
             /\ threshold' = c.threshold
             /\ cooldown_time' = c.cooldown
             /\ check_should_run_thread(c.enabled, c.switches)
    /\ UNCHANGED <<memNow, last_threshold_clean, memLast>>
    /\ UNCHANGED <<privOutcome, tokenOK, available_functions, negotiated, mprocs,
                   trimLast, privilege_details, requestLog, statVars>>

\* a mutant of threshold_stamp: a fixed-interval round restarts the cooldown
threshold_stamp_fixed(fixed, cur, last) == IF fixed THEN cur ELSE last

\* self._last_threshold_clean after the fixed-interval part of a pass (lines
\* 527-545): that part never writes it
threshold_stamp(fixed, cur, last) == last

\* one pass of the while loop of _cleaner_thread_func up to the sleep, or up to
\* the end of the operations of a threshold round (lines 517-567)
SchedIterate(th) ==
    /\ threads[th].pc = "loop"
    /\ IF ~mc_running
       THEN /\ threads' = [threads EXCEPT ![th] = NoThread]
            /\ UNCHANGED <<memLast, last_threshold_clean>>
       ELSE \E pct \in MemPercents :
            LET cur == memNow
                sw == clean_switches
                fixed == /\ any(sw)
                         /\ (sw[0] \/ sw[1] \/ sw[2])
                         /\ IntervalPassed(cur, threads[th].last_clean_time, clean_interval)
                thr == /\ any(sw)
                       /\ ~fixed
                       /\ (sw[3] \/ sw[4] \/ sw[5])
                       /\ CooldownPassed(cur, last_threshold_clean, cooldown_time)
                       /\ pct >= threshold
                ops == IF fixed THEN RoundOps(sw, 0, 1, 2)
                       ELSE IF thr THEN RoundOps(sw, 3, 4, 5) ELSE <<>>
            IN /\ threads' = [threads EXCEPT
                     ![th].cur = IF thr THEN cur ELSE 0,
                     ![th].last_clean_time = IF fixed THEN cur ELSE @,
                     ![th].pc = IF thr THEN "stamp" ELSE "sleep",
                     ![th].wake = IF thr THEN @ ELSE memNow + SLEEP_SLICES,
                     ![th].pct = pct]
               /\ last_threshold_clean' = threshold_stamp(fixed, cur, last_threshold_clean)
               /\ memLast' =
                     IF fixed THEN [memLast EXCEPT !.kind = "fixed", !.ops = ops,
                                                  !.fixT = cur]
                     ELSE IF thr THEN [kind |-> "threshold", ops |-> ops,
                                       fixT |-> memLast.fixT,
                                       thrN |-> IF memLast.thrN >= 2 THEN 2
                                                ELSE memLast.thrN + 1,
                                       thrT |-> cur, thrPrev |-> memLast.thrT,
                                       thrCd |-> cooldown_time]
                     ELSE memLast
    /\ UNCHANGED <<memNow, mc_enabled, clean_switches, mc_running, cooldown_time,
                   clean_interval, threshold>>

\* line 570: the threshold round is stamped, then the sleep starts
SchedStamp(th) ==
    /\ threads[th].pc = "stamp"
    /\ last_threshold_clean' = threads[th].cur
    /\ threads' = [threads EXCEPT ![th].pc = "sleep", ![th].cur = 0,
                                  ![th].wake = memNow + SLEEP_SLICES, ![th].pct = 0]
    /\ UNCHANGED <<memNow, mc_enabled, clean_switches, mc_running, cooldown_time,
                   clean_interval, threshold, memLast>>

\* lines 580-583: the sleep ends after its 15 slices, or at the first slice
\* that finds the running flag down
SchedWake(th) ==
    /\ threads[th].pc = "sleep"
    /\ memNow >= threads[th].wake \/ ~mc_running
    /\ threads' = [threads EXCEPT ![th].pc = "loop", ![th].wake = 0, ![th].pct = 0]
    /\ UNCHANGED <<memNow, mc_enabled, clean_switches, mc_running, cooldown_time,
                   clean_interval, threshold, last_threshold_clean, memLast>>

\* time passes; a sleeping thread looks at the flag every second, so it has seen
\* a flag that is down before a further second passes
MemTick ==
    /\ ~\E th \in ThreadIds : threads[th].pc = "sleep" /\ ~mc_running
    /\ \E d \in MemSteps :
          /\ memNow + d <= MaxMemTime
          /\ memNow' = memNow + d
    /\ UNCHANGED <<mc_enabled, clean_switches, mc_running, cooldown_time, clean_interval,
                   threshold, last_threshold_clean, threads, memLast>>

\* the cleaner as constructed and loaded from a configuration that holds the
\* default threshold and cooldown and the smallest interval the setters allow
ParkMem ==
    /\ memNow = MemT0
    /\ mc_enabled = FALSE
    /\ clean_switches = [i \in Switches |-> FALSE]
    /\ mc_running = FALSE
    /\ cooldown_time = 60
    /\ clean_interval = 60
    /\ threshold = 80
    /\ last_threshold_clean = 0
    /\ threads = [i \in ThreadIds |-> NoThread]
    /\ memLast = NoRound

(***************************************************************************)
(* ProcessIoPriorityManager: the process tuner                             *)
(***************************************************************************)
MaxTuneProcs == 2
ECO_MODE == 0
NORMAL_MODE == 1
HIGH_PERFORMANCE == 2
MAXIMUM_PERFORMANCE == 3
IoPriorityVeryLow == 0
IoPriorityLow == 1
IoPriorityNormal == 2
IoPriorityCritical == 3
\* priority=None
NoPriority == -1

Modes == {ECO_MODE, NORMAL_MODE, HIGH_PERFORMANCE, MAXIMUM_PERFORMANCE}
TPids == 1..MaxTuneProcs
Steps == {"io", "cpu", "aff", "pow"}
TuneNames == {"SGuard64.exe", "sguard64.exe", "Other.exe", ""}

\* a process as the tuner sees it; faults are the steps the OS refuses for it
TUnborn == [name |-> "", st |-> "unborn", io |-> IoPriorityNormal, prio |-> "Normal",
            affinity |-> {}, throttle |-> FALSE, faults |-> {}]

IO_PRIORITY_MAP(mode) ==
    CASE mode = ECO_MODE -> IoPriorityLow
      [] mode = NORMAL_MODE -> IoPriorityNormal
      [] mode = HIGH_PERFORMANCE -> IoPriorityNormal
      [] mode = MAXIMUM_PERFORMANCE -> IoPriorityCritical
      [] OTHER -> IoPriorityLow

CPU_PRIORITY_MAP(mode) ==
    CASE mode = ECO_MODE -> "Idle"
      [] mode = NORMAL_MODE -> "Normal"
      [] mode = HIGH_PERFORMANCE -> "High"
      [] mode = MAXIMUM_PERFORMANCE -> "Realtime"
      [] OTHER -> "Normal"

\* a mutant of the affinity map: every mode uses every core
CPU_AFFINITY_MAP_all(mode) == "all_cores"

CPU_AFFINITY_MAP(mode) ==
    CASE mode = ECO_MODE -> "last_core"
      [] OTHER -> "all_cores"

\* can the OS carry out this step on process pr
StepOK(pr, step) == pr.st = "alive" /\ step \notin pr.faults

\* each step: the process after it and whether it succeeded
set_io_priority(pr, priority) ==
    IF StepOK(pr, "io") THEN [p |-> [pr EXCEPT !.io = priority], ok |-> TRUE]
    ELSE [p |-> pr, ok |-> FALSE]

set_cpu_priority(pr, mode) ==
    IF StepOK(pr, "cpu") THEN [p |-> [pr EXCEPT !.prio = CPU_PRIORITY_MAP(mode)], ok |-> TRUE]
    ELSE [p |-> pr, ok |-> FALSE]

set_cpu_affinity_by_mode(pr, mode, n) ==
    IF n <= 1 THEN [p |-> pr, ok |-> TRUE]
    ELSE IF ~StepOK(pr, "aff") THEN [p |-> pr, ok |-> FALSE]
    ELSE IF CPU_AFFINITY_MAP(mode) = "last_core"
         THEN [p |-> [pr EXCEPT !.affinity = {n - 1}], ok |-> TRUE]
         ELSE [p |-> [pr EXCEPT !.affinity = 0..(n - 1)], ok |-> TRUE]

\* a mutant of the throttle step: Eco flips the state instead of setting it
set_power_throttling_flip(pr, mode) ==
    IF StepOK(pr, "pow")
    THEN [p |-> [pr EXCEPT !.throttle = IF mode = ECO_MODE THEN ~pr.throttle ELSE FALSE],
          ok |-> TRUE]
    ELSE [p |-> pr, ok |-> FALSE]

set_power_throttling(pr, mode) ==
    IF StepOK(pr, "pow") THEN [p |-> [pr EXCEPT !.throttle = (mode = ECO_MODE)], ok |-> TRUE]
    ELSE [p |-> pr, ok |-> FALSE]

\* a mutant of set_process_io_priority: the result is "every step succeeded"
set_process_io_priority_all(pr, priority, mode, n) ==
    LET prio == IF priority = NoPriority THEN IO_PRIORITY_MAP(mode) ELSE priority
        a == set_io_priority(pr, prio)
        b == set_cpu_priority(a.p, mode)
        c == set_cpu_affinity_by_mode(b.p, mode, n)
        d == set_power_throttling(c.p, mode)
    IN IF ~a.ok THEN [p |-> pr, ok |-> FALSE,
                      results |-> [io |-> FALSE, cpu |-> FALSE, aff |-> FALSE, pow |-> FALSE],
                      ran |-> {"io"}]
       ELSE [p |-> d.p, ok |-> a.ok /\ b.ok /\ c.ok /\ d.ok,
             results |-> [io |-> a.ok, cpu |-> b.ok, aff |-> c.ok, pow |-> d.ok],
             ran |-> Steps]

\* set_process_io_priority(process_id, priority, performance_mode) on process pr
\* of a machine with n logical cores: the process after, the result, the steps' results
set_process_io_priority(pr, priority, mode, n) ==
    LET prio == IF priority = NoPriority THEN IO_PRIORITY_MAP(mode) ELSE priority
        a == set_io_priority(pr, prio)
        b == set_cpu_priority(a.p, mode)
        c == set_cpu_affinity_by_mode(b.p, mode, n)
        d == set_power_throttling(c.p, mode)
    IN IF ~a.ok THEN [p |-> pr, ok |-> FALSE,
                      results |-> [io |-> FALSE, cpu |-> FALSE, aff |-> FALSE, pow |-> FALSE],
                      ran |-> {"io"}]
       ELSE [p |-> d.p, ok |-> a.ok,
             results |-> [io |-> a.ok, cpu |-> b.ok, aff |-> c.ok, pow |-> d.ok],
             ran |-> Steps]

\* set_process_io_priority_by_name: the enumeration visits the running processes
\* in pid order; from pid i on, with the counts so far
RECURSIVE by_name_from(_, _, _, _, _, _, _, _)
by_name_from(i, tbl, name, priority, mode, n, succ, tot) ==
    IF i > MaxTuneProcs THEN [tbl |-> tbl, success |-> succ, total |-> tot, aborted |-> FALSE]
    ELSE IF tbl[i].st # "alive"
         THEN by_name_from(i + 1, tbl, name, priority, mode, n, succ, tot)
    ELSE IF tbl[i].name = ""
         THEN [tbl |-> tbl, success |-> succ, total |-> tot, aborted |-> TRUE]
    ELSE IF Lower(tbl[i].name) = Lower(name)
         THEN LET r == set_process_io_priority(tbl[i], priority, mode, n)
              IN by_name_from(i + 1, [tbl EXCEPT ![i] = r.p], name, priority, mode, n,
                              succ + (IF r.ok THEN 1 ELSE 0), tot + 1)
    ELSE by_name_from(i + 1, tbl, name, priority, mode, n, succ, tot)

set_process_io_priority_by_name(tbl, name, priority, mode, n) ==
    by_name_from(1, tbl, name, priority, mode, n, 0, 0)

NoTune == [pid |-> 0, mode |-> 0, priority |-> NoPriority, ok |-> FALSE,
           results |-> [io |-> FALSE, cpu |-> FALSE, aff |-> FALSE, pow |-> FALSE],
           ran |-> {}, clean |-> FALSE, rep |-> FALSE]
NoByName == [name |-> "", mode |-> 0, success |-> 0, total |-> 0, aborted |-> FALSE,
             matching |-> {}, wouldSucceed |-> {}, called |-> FALSE]

\* the UI or the scheduler applies a mode to one process
Apply(pids, priorities) ==
    /\ \E pid \in pids, priority \in priorities, mode \in Modes :
          LET r == set_process_io_priority(tprocs[pid], priority, mode, cpu_count)
          IN /\ tprocs[pid].st # "unborn"
             /\ tprocs' = [tprocs EXCEPT ![pid] = r.p]
             /\ tuneLast' = [pid |-> pid, mode |-> mode, priority |-> priority, ok |-> r.ok,
                             results |-> r.results, ran |-> r.ran, clean |-> TRUE,
                             rep |-> /\ tuneLast.clean
                                     /\ tuneLast.pid = pid
                                     /\ tuneLast.mode = mode
                                     /\ tuneLast.priority = priority]
    /\ UNCHANGED <<cpu_count, byNameLast, loopVars>>

\* the UI or the scheduler applies a mode to every process called name
ApplyByName(modes) ==
    /\ \E name \in TuneNames \ {""}, mode \in modes :
          LET r == set_process_io_priority_by_name(tprocs, name, NoPriority, mode, cpu_count)
              matching == {i \in TPids : /\ tprocs[i].st = "alive"
                                         /\ tprocs[i].name # ""
                                         /\ Lower(tprocs[i].name) = Lower(name)}
          IN /\ tprocs' = r.tbl
             /\ byNameLast' = [name |-> name, mode |-> mode, success |-> r.success,
                                total |-> r.total, aborted |-> r.aborted,
                                matching |-> matching,
                                wouldSucceed |-> {i \in matching : StepOK(tprocs[i], "io")},
                                called |-> TRUE]
    /\ tuneLast' = [tuneLast EXCEPT !.clean = FALSE, !.rep = FALSE]
    /\ UNCHANGED <<cpu_count, loopVars>>

\* the OS starts a process
TSpawn(pids, names, faultsets) ==
    /\ \E pid \in pids, nm \in names, fs \in faultsets :
          /\ tprocs[pid].st = "unborn"
          /\ \A j \in TPids : j < pid => tprocs[j].st # "unborn"
          /\ tprocs' = [tprocs EXCEPT ![pid] =
                           [name |-> nm, st |-> "alive", io |-> IoPriorityNormal,
                            prio |-> "Normal", affinity |-> 0..(cpu_count - 1),
                            throttle |-> FALSE, faults |-> fs]]
    /\ tuneLast' = [tuneLast EXCEPT !.clean = FALSE, !.rep = FALSE]
    /\ UNCHANGED <<cpu_count, byNameLast, loopVars>>

\* a process ends
TExit ==
    /\ \E pid \in TPids :
          /\ tprocs[pid].st = "alive"
          /\ tprocs' = [tprocs EXCEPT ![pid].st = "dead"]
    /\ tuneLast' = [tuneLast EXCEPT !.clean = FALSE, !.rep = FALSE]
    /\ UNCHANGED <<cpu_count, byNameLast, loopVars>>

(***************************************************************************)
(* The background loops and their stop flags                               *)
(***************************************************************************)
\* threads of one loop that may be alive at once
MaxLoopThreads == 2
\* the owners of a running flag: GameProcessMonitor, MemoryCleanerManager and
\* ProcessIoPriorityService
LoopOwners == {"monitor", "cleaner", "service"}
\* monitor_acetray_process, monitor_sguard_process, _cleaner_thread_func and
\* _service_loop
LoopKinds == {"acetray", "sguard", "cleaner", "service"}
OwnerOf(k) == IF k \in {"acetray", "sguard"} THEN "monitor" ELSE k
LoopSlots == LoopKinds \X (1..MaxLoopThreads)

\* self.check_interval of the tuning service, in 1-second slices
check_interval == 30
\* the 2-second slices slept after an exception in _cleaner_thread_func
ERROR_SLICES == 30

\* the sleeps that end an iteration of loop k: the monitors call time.sleep(2)
\* once, the schedulers sleep in slices
Slices(k, raised) ==
    CASE k \in {"acetray", "sguard"} -> 1
      [] k = "cleaner" -> IF raised THEN ERROR_SLICES ELSE SLEEP_SLICES
      [] OTHER -> check_interval

\* only the schedulers test the flag before each slice
SliceChecked(k) == k \in {"cleaner", "service"}

\* a mutant of slice_break: the whole interval is slept without a look at the flag
slice_break_never(k, flag) == FALSE

\* `if not self.running: break` at the head of the for loop of the sleep
slice_break(k, flag) == SliceChecked(k) /\ ~flag

NoLoopThread == [pc |-> "none", n |-> 0, late |-> 0, brokeAt |-> 0]
NewLoopThread == [NoLoopThread EXCEPT !.pc = "head"]
AliveLoop(k) == {s \in LoopSlots : s[1] = k /\ loopThreads[s].pc # "none"}
FreeLoop(k) == {s \in LoopSlots : s[1] = k /\ loopThreads[s].pc = "none"}
FirstFree(k) == <<k, Min({s[2] : s \in FreeLoop(k)})>>
\* the owners share no state; the model runs them one at a time
OthersIdle(o) ==
    \A s \in LoopSlots :
       OwnerOf(s[1]) # o => (loopThreads[s].pc = "none" /\ ~loopFlag[OwnerOf(s[1])])

\* start_monitors(), start_cleaner_thread() with a switch on, start_service():
\* the flag goes up; the monitors start a thread where none is alive, the
\* schedulers start one whenever the flag was down
StartLoops(o) ==
    /\ OthersIdle(o)
    /\ o # "monitor" => (~loopFlag[o] /\ FreeLoop(o) # {})
    /\ loopFlag' = [loopFlag EXCEPT ![o] = TRUE]
    /\ loopThreads' =
          [s \in LoopSlots |->
             IF OwnerOf(s[1]) # o THEN loopThreads[s]
             ELSE IF loopThreads[s].pc # "none" THEN [loopThreads[s] EXCEPT !.late = 0]
             ELSE IF s = FirstFree(s[1]) /\ (o = "monitor" => AliveLoop(s[1]) = {})
                  THEN NewLoopThread
                  ELSE loopThreads[s]]
    /\ UNCHANGED <<tprocs, cpu_count, tuneLast, byNameLast, cycleLast, io_priority_processes>>

\* stop_monitors(), stop_cleaner_thread(), stop_service(): the flag goes down
StopLoops(o) ==
    /\ loopFlag[o]
    /\ loopFlag' = [loopFlag EXCEPT ![o] = FALSE]
    /\ UNCHANGED <<tprocs, cpu_count, tuneLast, byNameLast, loopThreads, cycleLast,
                   io_priority_processes>>

\* one statement of the thread in slot s: the while test, the body of the
\* iteration, the flag test before a slice, or the sleep of a slice
LoopStep(s) ==
    LET k == s[1]
        th == loopThreads[s]
        flag == loopFlag[OwnerOf(k)]
    IN /\ th.pc # "none"
       /\ CASE th.pc = "head" ->
                 loopThreads' = [loopThreads EXCEPT ![s] =
                     IF flag THEN [th EXCEPT !.pc = "body", !.brokeAt = 0]
                     ELSE NoLoopThread]
            [] th.pc = "body" ->
                 \E raised \in BOOLEAN :
                    loopThreads' = [loopThreads EXCEPT ![s] =
                        IF raised /\ ~SliceChecked(k)
                        THEN NoLoopThread
                        ELSE [th EXCEPT !.pc = IF SliceChecked(k) THEN "check" ELSE "sleep",
                                        !.n = Slices(k, raised)]]
            [] th.pc = "check" ->
                 loopThreads' = [loopThreads EXCEPT ![s] =
                     IF slice_break(k, flag)
                     THEN [th EXCEPT !.pc = "head", !.n = 0, !.brokeAt = th.n]
                     ELSE [th EXCEPT !.pc = "sleep"]]
            [] th.pc = "sleep" ->
                 loopThreads' = [loopThreads EXCEPT ![s] =
                     [th EXCEPT !.pc = IF th.n = 1 THEN "head"
                                       ELSE IF SliceChecked(k) THEN "check" ELSE "sleep",
                                !.n = th.n - 1,
                                !.late = IF flag THEN th.late
                                         ELSE IF th.late >= 2 THEN 2 ELSE th.late + 1]]
       /\ UNCHANGED <<tprocs, cpu_count, tuneLast, byNameLast, loopFlag, cycleLast,
                      io_priority_processes>>

\* entries of config_manager.io_priority_processes the cycle may find
MaxTracked == 2
\* an entry without the key performance_mode
NoMode == -1
\* something that is not a dict or has no key name
BadEntry == [wf |-> FALSE, name |-> "", mode |-> NoMode]
TrackedEntries ==
    {BadEntry} \cup [wf : {TRUE}, name : {"sguard64.exe", "Other.exe"},
                     mode : {NoMode, HIGH_PERFORMANCE}]
TrackedLists == UNION {[1..k -> TrackedEntries] : k \in 0..MaxTracked}

\* proc_config.get('performance_mode', PERFORMANCE_MODE.ECO_MODE)
EntryMode(e) == IF e.mode = NoMode THEN ECO_MODE ELSE e.mode

\* the for loop of _check_and_optimize_processes from entry i on
RECURSIVE check_and_optimize_from(_, _, _, _, _)
check_and_optimize_from(i, list, tbl, calls, n) ==
    IF i > Len(list) THEN [tbl |-> tbl, calls |-> calls]
    ELSE IF ~list[i].wf THEN check_and_optimize_from(i + 1, list, tbl, calls, n)
    ELSE LET mode == EntryMode(list[i])
             r == set_process_io_priority_by_name(tbl, list[i].name, NoPriority, mode, n)
         IN check_and_optimize_from(i + 1, list, r.tbl,
                                    Append(calls, <<list[i].name, mode>>), n)

\* _check_and_optimize_processes() on the tracked list
check_and_optimize_processes(list, tbl, n) == check_and_optimize_from(1, list, tbl, <<>>, n)

NoCycle == [list |-> <<>>, calls |-> <<>>, seq |-> 0]

\* one cycle of _service_loop: auto_optimize_enabled is always true
Cycle(lists) ==
    /\ \E list \in lists :
          LET r == check_and_optimize_processes(list, tprocs, cpu_count)
          IN /\ tprocs' = r.tbl
             /\ cycleLast' = [list |-> list, calls |-> r.calls, seq |-> 1 - cycleLast.seq]
    /\ tuneLast' = [tuneLast EXCEPT !.clean = FALSE, !.rep = FALSE]
    /\ UNCHANGED <<cpu_count, byNameLast, loopFlag, loopThreads, io_priority_processes>>

\* The handlers that edit the tracked list. An entry is found by
\* existing_proc.get('name') == process_name, an exact comparison.
\* the index of the first entry called name, 0 when there is none
FirstNamed(list, name) ==
    IF \E i \in DOMAIN list : list[i].name = name
    THEN Min({i \in DOMAIN list : list[i].name = name})
    ELSE 0

\* _add_to_auto_optimize_list(process_name, performance_mode, ...)
add_to_auto_optimize_list(list, name, mode) ==
    LET i == FirstNamed(list, name)
    IN IF i = 0 THEN Append(list, [wf |-> TRUE, name |-> name, mode |-> mode])
       ELSE IF EntryMode(list[i]) # mode THEN [list EXCEPT ![i].mode = mode]
       ELSE list

\* the first names optimize_anticheat_processes walks through, in order
anticheat_processes == <<"SGuard64.exe", "ACE-Tray.exe">>

\* the for loop of optimize_anticheat_processes from name i on; the user
\* cancels the progress dialog before name upto + 1
RECURSIVE bulk_from(_, _, _, _, _)
bulk_from(i, upto, list, tbl, n) ==
    IF i > Len(anticheat_processes) \/ i > upto THEN [list |-> list, tbl |-> tbl]
    ELSE LET r == set_process_io_priority_by_name(tbl, anticheat_processes[i],
                                                  IoPriorityVeryLow, ECO_MODE, n)
         IN bulk_from(i + 1, upto,
                      IF r.total > 0 /\ r.success > 0
                      THEN add_to_auto_optimize_list(list, anticheat_processes[i], ECO_MODE)
                      ELSE list,
                      r.tbl, n)

\* optimize_anticheat_processes(): the one-click bulk optimise
optimize_anticheat_processes ==
    /\ \E upto \in 0..Len(anticheat_processes) :
          LET r == bulk_from(1, upto, io_priority_processes, tprocs, cpu_count)
          IN /\ Len(r.list) <= MaxTracked
             /\ tprocs' = r.tbl
             /\ io_priority_processes' = r.list
    /\ tuneLast' = [tuneLast EXCEPT !.clean = FALSE, !.rep = FALSE]
    /\ UNCHANGED <<cpu_count, byNameLast, loopFlag, loopThreads, cycleLast>>

\* the I/O priority apply_performance_mode_by_button picks for a mode
ButtonPriority(mode) ==
    IF mode = MAXIMUM_PERFORMANCE THEN IoPriorityCritical
    ELSE IF mode = HIGH_PERFORMANCE THEN IoPriorityNormal
    ELSE IF mode = NORMAL_MODE THEN IoPriorityNormal
    ELSE IoPriorityLow

\* apply_performance_mode_by_button: the manual apply on the row of process
\* pid; reply is the user's answer when the entry exists with another mode
apply_performance_mode_by_button(modes) ==
    /\ \E pid \in TPids, mode \in modes, reply \in BOOLEAN :
          LET r == set_process_io_priority(tprocs[pid], ButtonPriority(mode), mode, cpu_count)
              name == tprocs[pid].name
              i == FirstNamed(io_priority_processes, name)
          IN /\ tprocs[pid].st # "unborn"
             /\ name # ""
             /\ tprocs' = [tprocs EXCEPT ![pid] = r.p]
             /\ io_priority_processes' =
                   IF ~r.ok THEN io_priority_processes
                   ELSE IF i = 0
                        THEN Append(io_priority_processes,
                                    [wf |-> TRUE, name |-> name, mode |-> mode])
                   ELSE IF EntryMode(io_priority_processes[i]) # mode /\ reply
                        THEN [io_priority_processes EXCEPT ![i].mode = mode]
                   ELSE io_priority_processes
             /\ Len(io_priority_processes') <= MaxTracked
    /\ tuneLast' = [tuneLast EXCEPT !.clean = FALSE, !.rep = FALSE]
    /\ UNCHANGED <<cpu_count, byNameLast, loopFlag, loopThreads, cycleLast>>

\* on_auto_performance_mode_changed: the combo box of row i of the tracked
\* list gets another mode; a saved change is applied to the running processes
on_auto_performance_mode_changed(modes) ==
    /\ \E row \in DOMAIN io_priority_processes, mode \in modes, saved \in BOOLEAN :
          LET name == io_priority_processes[row].name
              i == FirstNamed(io_priority_processes, name)
              r == set_process_io_priority_by_name(tprocs, name, NoPriority, mode, cpu_count)
          IN /\ EntryMode(io_priority_processes[i]) # mode
             /\ io_priority_processes' = [io_priority_processes EXCEPT ![i].mode = mode]
             /\ tprocs' = IF saved THEN r.tbl ELSE tprocs
    /\ tuneLast' = [tuneLast EXCEPT !.clean = FALSE, !.rep = FALSE]
    /\ UNCHANGED <<cpu_count, byNameLast, loopFlag, loopThreads, cycleLast>>

\* delete_from_auto_optimize_list_by_button, confirmed by the user
delete_from_auto_optimize_list_by_button ==
    /\ \E row \in DOMAIN io_priority_processes :
          LET i == FirstNamed(io_priority_processes, io_priority_processes[row].name)
          IN io_priority_processes' =
                [k \in 1..(Len(io_priority_processes) - 1) |->
                    IF k < i THEN io_priority_processes[k] ELSE io_priority_processes[k + 1]]
    /\ UNCHANGED <<tprocs, cpu_count, tuneLast, byNameLast, loopFlag, loopThreads, cycleLast>>

\* one cycle of _service_loop over the tracked list as it stands
CycleTracked == Cycle({io_priority_processes})

ParkLoops ==
    /\ loopFlag = [o \in LoopOwners |-> FALSE]
    /\ loopThreads = [s \in LoopSlots |-> NoLoopThread]
    /\ cycleLast = NoCycle
    /\ io_priority_processes = <<>>

ParkTune ==
    /\ tprocs = [i \in TPids |-> TUnborn]
    /\ cpu_count = MaxCores
    /\ tuneLast = NoTune
    /\ byNameLast = NoByName
    /\ ParkLoops

(***************************************************************************)
(* WindowsPrivilegeManager and MemoryCleanerManager.trim_process_working_set *)
(***************************************************************************)
MaxTrimProcs == 2

SE_DEBUG_NAME == "SeDebugPrivilege"
core_privileges == <<"SeIncreaseQuotaPrivilege", "SeProfileSingleProcessPrivilege">>
enhanced_privileges == <<SE_DEBUG_NAME, "SeIncreaseWorkingSetPrivilege",
                         "SeManageVolumePrivilege">>
process_privileges == <<"SeIncreaseBasePriorityPrivilege", "SeSystemtimePrivilege">>
Privileges == Range(core_privileges) \cup Range(enhanced_privileges)
              \cup Range(process_privileges)

\* the OS's answer to AdjustTokenPrivileges for one privilege: granted, error
\* 1300 (not all assigned), or an exception; "none" when it was never requested
Outcomes == {"ok", "denied", "raise"}

FunctionNames == {"trim_all_processes", "flush_system_cache", "memory_combine",
                  "purge_standby_list", "debug_other_processes",
                  "set_process_io_priority", "set_process_priority"}
NoFunctions == [f \in FunctionNames |-> FALSE]

\* _request_single_privilege(...)["success"]
request_success(outcome) == outcome = "ok"

\* a mutant of Acquired: only the first privilege of a tier counts
Acquired_first(tier, out) == IF request_success(out[tier[1]]) THEN 1 ELSE 0

\* privilege_status[tier]["acquired"]
Acquired(tier, out) == Cardinality({i \in DOMAIN tier : request_success(out[tier[i]])})

\* a mutant of _init_privileges: the debug capability follows the enhanced tier
init_privileges_tier(tok, out) ==
    IF ~tok THEN NoFunctions
    ELSE [f \in FunctionNames |->
            CASE f \in {"trim_all_processes", "flush_system_cache", "purge_standby_list"}
                   -> Acquired(core_privileges, out) > 0
              [] f \in {"memory_combine", "debug_other_processes"}
                   -> Acquired(enhanced_privileges, out) > 0
              [] OTHER -> Acquired(enhanced_privileges, out) > 0
                          \/ Acquired(process_privileges, out) > 0]

\* _init_privileges(): available_functions for the OS answers out; tok is whether
\* OpenProcessToken succeeded
init_privileges(tok, out) ==
    IF ~tok THEN NoFunctions
    ELSE [f \in FunctionNames |->
            CASE f \in {"trim_all_processes", "flush_system_cache", "purge_standby_list"}
                   -> Acquired(core_privileges, out) > 0
              [] f = "memory_combine" -> Acquired(enhanced_privileges, out) > 0
              [] f = "debug_other_processes" -> request_success(out[SE_DEBUG_NAME])
              [] OTHER -> Acquired(enhanced_privileges, out) > 0
                          \/ Acquired(process_privileges, out) > 0]

\* access rights of a process handle
PROCESS_ALL_ACCESS == {"SET_INFORMATION", "QUERY_INFORMATION",
                       "QUERY_LIMITED_INFORMATION", "OTHER"}
\* 0x0200 | 0x0400
LOW_ACCESS_1 == {"SET_INFORMATION", "QUERY_INFORMATION"}
\* 0x1000 | 0x0400
LOW_ACCESS_2 == {"QUERY_LIMITED_INFORMATION", "QUERY_INFORMATION"}
\* what the OS may grant this program on a process
GrantChoices == {PROCESS_ALL_ACCESS,
                 {"QUERY_INFORMATION", "QUERY_LIMITED_INFORMATION"},
                 {"QUERY_LIMITED_INFORMATION"}}
MPids == 1..MaxTrimProcs

\* kernel32.OpenProcess(mask, False, pid) returns a handle
OpenProcessOK(mask, granted) == mask \subseteq granted

\* the handles _trim_processes_individually asks for, for one process
HandleRequests(use_debug_privilege, granted) ==
    IF use_debug_privilege THEN {PROCESS_ALL_ACCESS}
    ELSE IF OpenProcessOK(LOW_ACCESS_1, granted) THEN {LOW_ACCESS_1}
    ELSE {LOW_ACCESS_1, LOW_ACCESS_2}

\* _trim_processes_individually(): the handles requested and the processes whose
\* working set was emptied
trim_processes_individually(tbl, avail) ==
    LET dbg == avail["debug_other_processes"]
    IN [requested |-> UNION {HandleRequests(dbg, tbl[i].granted) : i \in DOMAIN tbl},
        emptied |-> {i \in DOMAIN tbl :
                        \E m \in HandleRequests(dbg, tbl[i].granted) :
                            OpenProcessOK(m, tbl[i].granted)}]

\* a mutant of trim_process_working_set: the per-process path always runs
trim_process_working_set_both(tbl, avail, brute, status, delta) ==
    LET t == trim_processes_individually(tbl, avail)
    IN [called |-> TRUE, system_wide |-> brute /\ avail["trim_all_processes"],
        individual |-> TRUE,
        brute |-> brute, capable |-> avail["trim_all_processes"], status |-> status,
        requested |-> t.requested, emptied |-> t.emptied,
        cleaned_mb |-> IF delta > 0 THEN delta ELSE 0,
        completed |-> TRUE]

\* trim_process_working_set(): status is the NTSTATUS of the system-wide call
\* (0 for success), delta the change of available memory in MB
trim_process_working_set(tbl, avail, brute, status, delta) ==
    LET system_wide == brute /\ avail["trim_all_processes"]
        individual == ~system_wide \/ status # 0
        t == trim_processes_individually(tbl, avail)
    IN [called |-> TRUE, system_wide |-> system_wide, individual |-> individual,
        brute |-> brute, capable |-> avail["trim_all_processes"], status |-> status,
        requested |-> IF individual THEN t.requested ELSE {},
        emptied |-> IF individual THEN t.emptied ELSE {},
        cleaned_mb |-> IF delta > 0 THEN delta ELSE 0,
        completed |-> TRUE]

NoTrim == [called |-> FALSE, system_wide |-> FALSE, individual |-> FALSE,
           brute |-> FALSE, capable |-> FALSE, status |-> 0,
           requested |-> {}, emptied |-> {}, cleaned_mb |-> 0, completed |-> FALSE]

ERROR_NOT_ALL_ASSIGNED == 1300
\* error_code None
NoCode == -1
NoResult == [success |-> FALSE, error_code |-> NoCode, error_message |-> "none"]
NoDetails == [p \in Privileges |-> NoResult]

\* _request_single_privilege(hToken, name): the result dictionary for the OS's
\* answer; an exception leaves error_code None and keeps only str(e)
request_single_privilege(outcome) ==
    CASE outcome = "ok" ->
            [success |-> TRUE, error_code |-> 0, error_message |-> "none"]
      [] outcome = "denied" ->
            [success |-> FALSE, error_code |-> ERROR_NOT_ALL_ASSIGNED,
             error_message |-> "insufficient"]
      [] OTHER ->
            [success |-> FALSE, error_code |-> NoCode, error_message |-> "exception"]

\* one "for privilege_name in tier" loop of _init_privileges (lines 88-106)
RECURSIVE request_tier(_, _, _, _)
request_tier(tier, i, out, acc) ==
    IF i > Len(tier) THEN acc
    ELSE request_tier(tier, i + 1, out,
            [details |-> [acc.details EXCEPT ![tier[i]] = request_single_privilege(out[tier[i]])],
             log |-> Append(acc.log, tier[i])])

\* the three loops in their order
request_all(out) ==
    request_tier(process_privileges, 1, out,
       request_tier(enhanced_privileges, 1, out,
          request_tier(core_privileges, 1, out, [details |-> NoDetails, log |-> <<>>])))

\* WindowsPrivilegeManager(): the privileges are negotiated once; outs are the
\* answers the OS may give
Negotiate(outs) ==
    /\ ~negotiated
    /\ negotiated' = TRUE
    /\ \E tok \in BOOLEAN :
          /\ tokenOK' = tok
          /\ IF tok
             THEN \E out \in outs :
                     /\ privOutcome' = out
                     /\ available_functions' = init_privileges(tok, out)
                     /\ privilege_details' = request_all(out).details
                     /\ requestLog' = request_all(out).log
             ELSE /\ privOutcome' = [p \in Privileges |-> "none"]
                  /\ available_functions' = init_privileges(tok, privOutcome')
                  /\ privilege_details' = NoDetails
                  /\ requestLog' = <<>>
    /\ UNCHANGED <<brute_mode, mprocs, trimLast, statVars>>

\* toggle_brute_mode()
ToggleBruteMode ==
    /\ brute_mode' = ~brute_mode
    /\ UNCHANGED <<privOutcome, tokenOK, available_functions, negotiated, mprocs,
                   trimLast, privilege_details, requestLog, statVars>>

(***************************************************************************)
(* MemoryCleanerManager: the reclaim operations and CleanStats              *)
(***************************************************************************)
MaxCleaners == 2
\* reclaim operations started in one behaviour
MaxOps == 2
Cleaners == 1..MaxCleaners

SystemFileCacheInformation == 21
SystemMemoryListInformation == 80
SystemCombinePhysicalMemoryInformation == 130
MemoryEmptyWorkingSets == 2
MemoryFlushModifiedList == 3
MemoryPurgeStandbyList == 4
MemoryPurgeLowPriorityStandbyList == 5

\* NTSTATUS values NtSetSystemInformation returns: success and a failure
NtStatuses == {0, 1}
\* changes of available memory across an operation, in MB
Deltas == {-1, 1, 2}

\* the NtSetSystemInformation calls of clean_memory_all in program order; cmd is
\* the memory-list command, 0 where the call passes a structure
CleanAllSteps ==
    << [info |-> SystemCombinePhysicalMemoryInformation, cmd |-> 0],
       [info |-> SystemFileCacheInformation, cmd |-> 0],
       [info |-> SystemMemoryListInformation, cmd |-> MemoryEmptyWorkingSets],
       [info |-> SystemMemoryListInformation, cmd |-> MemoryPurgeLowPriorityStandbyList],
       [info |-> SystemMemoryListInformation, cmd |-> MemoryPurgeStandbyList],
       [info |-> SystemMemoryListInformation, cmd |-> MemoryFlushModifiedList] >>
StepIds == 1..Len(CleanAllSteps)

\* a mutant of issue_from: a non-success status ends the operation
RECURSIVE issue_from_failfast(_, _, _)
issue_from_failfast(k, status, raises) ==
    IF k > Len(CleanAllSteps) THEN [calls |-> <<>>, warned |-> {}, aborted |-> FALSE]
    ELSE IF k \in raises \/ status[k] # 0
         THEN [calls |-> <<CleanAllSteps[k]>>, warned |-> {}, aborted |-> TRUE]
    ELSE LET r == issue_from_failfast(k + 1, status, raises)
         IN [calls |-> <<CleanAllSteps[k]>> \o r.calls, warned |-> r.warned,
             aborted |-> r.aborted]

\* steps k..6 of clean_memory_all, inside the outer try only: the call is made,
\* a non-zero status is logged as a warning, an exception leaves the function
RECURSIVE issue_from(_, _, _)
issue_from(k, status, raises) ==
    IF k > Len(CleanAllSteps) THEN [calls |-> <<>>, warned |-> {}, aborted |-> FALSE]
    ELSE IF k \in raises
         THEN [calls |-> <<CleanAllSteps[k]>>, warned |-> {}, aborted |-> TRUE]
    ELSE LET r == issue_from(k + 1, status, raises)
         IN [calls |-> <<CleanAllSteps[k]>> \o r.calls,
             warned |-> (IF status[k] # 0 THEN {k} ELSE {}) \cup r.warned,
             aborted |-> r.aborted]

\* clean_memory_all(): status[k] is what call k returns, raises the calls that
\* raise instead, delta the change of available memory; step 1 has its own try
clean_memory_all(status, raises, delta) ==
    LET r == issue_from(2, status, raises)
        w1 == IF 1 \notin raises /\ status[1] # 0 THEN {1} ELSE {}
    IN [called |-> TRUE, status |-> status, raises |-> raises,
        calls |-> <<CleanAllSteps[1]>> \o r.calls,
        warned |-> w1 \cup r.warned,
        recorded |-> ~r.aborted,
        cleaned_mb |-> IF r.aborted THEN 0 ELSE IF delta > 0 THEN delta ELSE 0]

NoClean == [called |-> FALSE, status |-> [k \in StepIds |-> 0], raises |-> {},
            calls |-> <<>>, warned |-> {}, recorded |-> FALSE, cleaned_mb |-> 0]

\* st: the status NtSetSystemInformation returned to flush_system_buffer
IdleCleaner == [pc |-> "idle", tmp |-> 0, mb |-> 0, st |-> 0]
NoStats == [n |-> 0, sum |-> 0]

\* operations that have started and reached _record_cleaned_memory
OpsStarted == statDone.n + Cardinality({c \in Cleaners : cleaners[c].pc # "idle"})

\* thread c enters _record_cleaned_memory(mb)
BeginRecord(c, mb) ==
    [cleaners EXCEPT ![c] = [pc |-> "load_total", tmp |-> 0, mb |-> mb, st |-> 0]]

\* thread c calls trim_process_working_set(), up to its call of
\* _record_cleaned_memory
Trim(c, statuses, deltas) ==
    /\ negotiated
    /\ cleaners[c].pc = "idle"
    /\ OpsStarted < MaxOps
    /\ \E status \in statuses, delta \in deltas :
          LET t == trim_process_working_set(mprocs, available_functions, brute_mode,
                                            status, delta)
          IN /\ trimLast' = t
             /\ cleaners' = BeginRecord(c, t.cleaned_mb)
    /\ UNCHANGED <<privOutcome, tokenOK, available_functions, negotiated, brute_mode,
                   mprocs, privilege_details, requestLog, total_cleaned_mb,
                   clean_count, statDone, cleanLast>>

\* flush_system_buffer(): status is what NtSetSystemInformation returns and
\* delta the change of available memory across the call; the status selects
\* the log line only (lines 330-333), the amount is max(0, delta) either way
flush_system_buffer(status, delta) ==
    [warned |-> status # 0, cleaned_mb |-> IF delta > 0 THEN delta ELSE 0]

\* thread c calls flush_system_buffer(), up to its call of _record_cleaned_memory
Flush(c, statuses, deltas) ==
    /\ cleaners[c].pc = "idle"
    /\ OpsStarted < MaxOps
    /\ \E status \in statuses, delta \in deltas :
          cleaners' = [BeginRecord(c, flush_system_buffer(status, delta).cleaned_mb)
                          EXCEPT ![c].st = status]
    /\ UNCHANGED <<privOutcome, tokenOK, available_functions, negotiated, brute_mode,
                   mprocs, trimLast, privilege_details, requestLog, total_cleaned_mb,
                   clean_count, statDone, cleanLast>>

\* thread c calls clean_memory_all(), up to its call of _record_cleaned_memory
CleanAll(c, statuses, raiseSets, deltas) ==
    /\ cleaners[c].pc = "idle"
    /\ OpsStarted < MaxOps
    /\ \E status \in statuses, raises \in raiseSets, delta \in deltas :
          LET r == clean_memory_all(status, raises, delta)
          IN /\ cleanLast' = r
             /\ cleaners' = IF r.recorded THEN BeginRecord(c, r.cleaned_mb) ELSE cleaners
    /\ UNCHANGED <<privOutcome, tokenOK, available_functions, negotiated, brute_mode,
                   mprocs, trimLast, privilege_details, requestLog, total_cleaned_mb,
                   clean_count, statDone>>

\* thread c inside _record_cleaned_memory: "+=" on an attribute is a load, an
\* add and a store, and no lock is held (lines 220-221)
Record(c) ==
    /\ cleaners[c].pc # "idle"
    /\ CASE cleaners[c].pc = "load_total" ->
               /\ cleaners' = [cleaners EXCEPT ![c].pc = "store_total",
                                               ![c].tmp = total_cleaned_mb]
               /\ UNCHANGED <<total_cleaned_mb, clean_count, statDone>>
         [] cleaners[c].pc = "store_total" ->
               /\ total_cleaned_mb' = cleaners[c].tmp + cleaners[c].mb
               /\ cleaners' = [cleaners EXCEPT ![c].pc = "load_count", ![c].tmp = 0]
               /\ UNCHANGED <<clean_count, statDone>>
         [] cleaners[c].pc = "load_count" ->
               /\ cleaners' = [cleaners EXCEPT ![c].pc = "store_count",
                                               ![c].tmp = clean_count]
               /\ UNCHANGED <<total_cleaned_mb, clean_count, statDone>>
         [] OTHER ->
               /\ clean_count' = cleaners[c].tmp + 1
               /\ cleaners' = [cleaners EXCEPT ![c] = IdleCleaner]
               /\ statDone' = [n |-> statDone.n + 1, sum |-> statDone.sum + cleaners[c].mb]
               /\ UNCHANGED total_cleaned_mb
    /\ UNCHANGED <<privOutcome, tokenOK, available_functions, negotiated, brute_mode,
                   mprocs, trimLast, privilege_details, requestLog, cleanLast>>

ParkPriv ==
    /\ privOutcome = [p \in Privileges |-> "none"]
    /\ tokenOK = FALSE
    /\ available_functions = NoFunctions
    /\ negotiated = FALSE
    /\ brute_mode = TRUE
    /\ mprocs = [i \in MPids |-> [granted |-> PROCESS_ALL_ACCESS]]
    /\ trimLast = NoTrim
    /\ privilege_details = NoDetails
    /\ requestLog = <<>>
    /\ total_cleaned_mb = 0
    /\ clean_count = 0
    /\ cleaners = [c \in Cleaners |-> IdleCleaner]
    /\ statDone = NoStats
    /\ cleanLast = NoClean

(***************************************************************************)
(* The specifications                                                      *)
(***************************************************************************)
InitSvc == ParkSvc /\ ParkProc /\ ParkMem /\ ParkTune /\ ParkPriv
NextSvc ==
    \/ SvcQuery /\ UNCHANGED <<procVars, memVars, tuneVars, privVars>>
    \/ SvcEnvChange /\ UNCHANGED <<procVars, memVars, tuneVars, privVars>>
    \/ SvcTick /\ UNCHANGED <<procVars, memVars, tuneVars, privVars>>
SpecSvc == InitSvc /\ [][NextSvc]_vars

\* C1: a query that reaches the OS and is told "service does not exist" returns
\* exists = false, and every query for a name whose last OS check reported
\* "does not exist" less than 600 s ago returns (false, unknown, unknown) from
\* the cache and makes no OS call (the record of OS calls is unchanged).
C1_NegativeCached ==
    [][svcLast'.seq # svcLast.seq =>
         LET s == svcLast'.name
         IN /\ (svcLast'.usedOS /\ svcLastOs'[s].err = ERROR_SERVICE_DOES_NOT_EXIST
                   => ~svcLast'.result[1])
            /\ ((svcLastOs[s].err = ERROR_SERVICE_DOES_NOT_EXIST
                   /\ svcNow - svcLastOs[s].at < NEG_TTL)
                  => (~svcLast'.usedOS
                      /\ svcLast'.result = NegResult
                      /\ svcLastOs' = svcLastOs))]_vars

\* a query answered from the negative cache 599 s after the OS reported the
\* service missing, although the service has been installed since
C1_Witness ==
    /\ svcLast.name = "ACE-GAME"
    /\ ~svcLast.usedOS
    /\ svcLast.result = NegResult
    /\ svcLastOs["ACE-GAME"].err = ERROR_SERVICE_DOES_NOT_EXIST
    /\ svcNow - svcLastOs["ACE-GAME"].at = 599
    /\ svcOS["ACE-GAME"].k = "installed"

\* C19: a query that reaches the OS and fails for another reason than "service
\* does not exist" (the service cannot be opened: access denied; or the service
\* manager cannot be opened) returns (false, unknown, unknown) and leaves the
\* cache entry of that name as it was, and the query for a name whose last OS
\* query failed in this way goes to the OS again.
C19_OtherFailureNotCached ==
    [][svcLast'.seq # svcLast.seq =>
         LET s == svcLast'.name
             OtherFailure(q) == q.err \in {ERROR_ACCESS_DENIED, -1}
         IN /\ ((svcLast'.usedOS /\ OtherFailure(svcLastOs'[s]))
                   => (svcLast'.result = NegResult
                       /\ service_cache'[s] = service_cache[s]))
            /\ (OtherFailure(svcLastOs[s]) => svcLast'.usedOS)]_vars

\* C35: a negative cache entry answers queries for less than 600 s only: a
\* query answered without the OS met a negative entry younger than 600 s, and a
\* query that meets a negative entry 600 s old or older asks the service
\* manager again, reports a service that has been installed since as existing
\* and replaces the negative entry
C35_NegativeExpires ==
    [][svcLast'.seq # svcLast.seq =>
         LET s == svcLast'.name
             item == service_cache[s]
         IN /\ (~svcLast'.usedOS
                   => (item.k = "item" /\ ~item.exists /\ svcNow - item.last_check < 600))
            /\ ((item.k = "item" /\ ~item.exists /\ svcNow - item.last_check >= 600)
                   => (/\ svcLast'.usedOS
                       /\ svcLastOs'[s].at = svcNow
                       /\ ((svcOS[s].k = "installed" /\ svcLastOs'[s].err = 0)
                             => (/\ svcLast'.result[1]
                                 /\ service_cache'[s].exists
                                 /\ service_cache'[s].last_check = svcNow))))]_vars

\* a query made exactly 600 s after the negative entry was stored went to the
\* OS and reports the service, installed in the meantime, as existing
C35_Witness ==
    /\ svcLast.name = "ACE-GAME"
    /\ svcLast.negAge = 600
    /\ svcLast.usedOS
    /\ svcLast.result[1]
    /\ service_cache["ACE-GAME"].exists
    /\ svcOS["ACE-GAME"].k = "installed"

(***************************************************************************)
(* The process cache under lookups from the UI thread                      *)
(***************************************************************************)
PopupLookupNames == {anticheat_name, "ACE-TRAY.EXE"}

InitCache == ParkSvc /\ ParkProc /\ ParkMem /\ ParkTune /\ ParkPriv

NextCache ==
    \/ (\E n \in PopupLookupNames : Lookup(n)) /\ UNCHANGED <<svcVars, memVars, tuneVars, privVars>>
    \/ Spawn(AceNames, {AllCores(cores)}, {"Normal"}, {FullAccess})
          /\ UNCHANGED <<svcVars, memVars, tuneVars, privVars>>
    \/ ProcExit /\ UNCHANGED <<svcVars, memVars, tuneVars, privVars>>

SpecCache == InitCache /\ [][NextCache]_vars

\* C2: when the cached entry for a name is a process that has terminated, the
\* lookup does not return it: it returns None or a running process whose name
\* matches case-insensitively, and the stale entry is gone from the cache.
C2_StaleEvicted ==
    (procLast.op = "lookup" /\ procLast.staleBefore)
       => (/\ procLast.found # procLast.cachedBefore
           /\ process_cache[Lower(procLast.name)] # procLast.cachedBefore
           /\ (procLast.found = 0
                 \/ (/\ procLast.foundAlive
                     /\ procLast.foundName # ""
                     /\ Lower(procLast.foundName) = Lower(procLast.name))))

\* a lookup that met a dead cached process and returned a running one whose
\* name differs in case from the name asked for
C2_Witness ==
    /\ procLast.op = "lookup"
    /\ procLast.staleBefore
    /\ procLast.found # 0
    /\ procLast.foundName # procLast.name
    /\ process_cache[Lower(procLast.name)] = procLast.found

(***************************************************************************)
(* The rebuild of the process cache                                        *)
(***************************************************************************)
RefreshNames == {anticheat_name, "Other.exe", ""}
RefreshSteps == {1, 4}
MaxRefreshTime == 106

InitRefresh == ParkSvc /\ ParkProc /\ ParkMem /\ ParkTune /\ ParkPriv

NextRefresh ==
    \/ Refresh(BOOLEAN) /\ UNCHANGED <<svcVars, memVars, tuneVars, privVars>>
    \/ Spawn(RefreshNames, {AllCores(cores)}, {"Normal"}, {FullAccess})
          /\ UNCHANGED <<svcVars, memVars, tuneVars, privVars>>
    \/ ProcExit /\ UNCHANGED <<svcVars, memVars, tuneVars, privVars>>
    \/ ProcTickBy(RefreshSteps, MaxRefreshTime)
          /\ UNCHANGED <<svcVars, memVars, tuneVars, privVars>>

SpecRefresh == InitRefresh /\ [][NextRefresh]_vars

\* one step of refresh_process_cache
IsRefresh == procLast'.op = "refresh" /\ procLast'.flip # procLast.flip

\* C31: refresh_process_cache(force) clears the index and rebuilds it from the
\* enumeration, and stamps the rebuild time, exactly when force is set or 5 s
\* or more have passed since the last rebuild; otherwise the index and the
\* last-rebuild time stay as they were
C31_RebuildIffForcedOrExpired ==
    [][IsRefresh
          => IF procLast'.force \/ procNow - last_cache_refresh >= 5
             THEN /\ last_cache_refresh' = procNow
                  /\ \A k \in Keys :
                        \/ process_cache'[k] = 0
                        \/ process_cache'[k] \in Matches(procs, k)
                  /\ (procLast'.raisedAt = 0
                        => \A k \in Keys :
                              process_cache'[k] = 0 <=> Matches(procs, k) = {})
             ELSE /\ process_cache' = process_cache
                  /\ last_cache_refresh' = last_cache_refresh]_vars

\* an unforced refresh 4 s after a rebuild has left a dead entry in the index,
\* and one exactly 5 s after a rebuild has rebuilt it
C31_Witness ==
    /\ procLast.op = "refresh"
    /\ ~procLast.force
    /\ procNow - last_cache_refresh = 4
    /\ \E k \in Keys : process_cache[k] # 0 /\ procs[process_cache[k]].st = "dead"

\* C32: an access-denied, no-such-process or zombie error raised for one
\* entry of the enumeration costs that entry only: every other running process
\* with a name is in the index after that refresh
C32_ErrorSkipsOneEntry ==
    [][(IsRefresh /\ (procLast'.force \/ procNow - last_cache_refresh >= 5))
          => \A k \in Keys :
                (Matches(procs, k) \ {procLast'.raisedAt} # {})
                   => process_cache'[k] \in Matches(procs, k)]_vars

(***************************************************************************)
(* The popup monitor with the process cache                                *)
(***************************************************************************)
ScmUp == {[s \in ServiceNames |-> TRUE]}
\* names the popup process runs under
PopupNames == {anticheat_name, "ACE-TRAY.EXE"}

InitProc == ParkSvc /\ ParkProc /\ ParkMem /\ ParkTune /\ ParkPriv

NextProc ==
    \/ AcePoll /\ UNCHANGED <<svcVars, memVars, tuneVars, privVars>>
    \/ Spawn(PopupNames, {AllCores(cores)}, {"Normal"}, {FullAccess, {}})
          /\ UNCHANGED <<svcVars, memVars, tuneVars, privVars>>
    \/ ProcExit /\ UNCHANGED <<svcVars, memVars, tuneVars, privVars>>
    \/ ProcTick /\ UNCHANGED <<svcVars, memVars, tuneVars, privVars>>
    \/ StartMonitors(ScmUp) /\ UNCHANGED <<memVars, tuneVars, privVars>>
    \/ StopMonitors /\ UNCHANGED <<svcVars, memVars, tuneVars, privVars>>
    \/ Consume /\ UNCHANGED <<svcVars, memVars, tuneVars, privVars>>

SpecProc == InitProc /\ [][NextProc]_vars

\* C3: in a poll of the popup monitor a termination attempt is made exactly
\* when the process is observed and the handled flag is down (one attempt, never
\* two); after a poll the flag is up iff the process was observed; a successful
\* termination with notifications on emits exactly one status event and nothing
\* else emits one.
C3_PopupScenario ==
    (procLast.op = "ace_poll")
       => (/\ procLast.attempts = (IF procLast.found # 0 /\ ~procLast.flagBefore THEN 1 ELSE 0)
           /\ (anticheat_killed <=> procLast.found # 0)
           /\ procLast.enq = (IF procLast.killed /\ procLast.notif THEN 1 ELSE 0)
           /\ (procLast.killed => procLast.attempts = 1))

\* the second occurrence of the popup process, seen after a poll that found
\* none, is terminated with one attempt and one status event
C3_Witness ==
    /\ procLast.op = "ace_poll"
    /\ procLast.found = 2
    /\ procLast.prevAbsent
    /\ procLast.attempts = 1
    /\ procLast.killed
    /\ procLast.enq = 1
    /\ anticheat_killed
    /\ procs[1].st = "dead"
    /\ procs[2].st = "dead"

\* C27: a failed termination attempt on the popup process still raises the
\* handled flag and queues no status event, and no poll makes a further attempt
\* while the process has been observed by every poll since the failure and the
\* monitor has not been stopped
C27_FailedKillIsHandled ==
    [][(aceCounter' # aceCounter /\ procLast'.op = "ace_poll")
          => (/\ ((procLast'.attempts = 1 /\ ~procLast'.killed)
                    => (/\ anticheat_killed'
                        /\ procLast'.enq = 0
                        /\ message_queue' = message_queue))
              /\ ((procLast.op = "ace_poll" /\ procLast.failedRun /\ procLast'.found # 0)
                    => (/\ procLast'.attempts = 0
                        /\ procs' = procs
                        /\ anticheat_killed'
                        /\ message_queue' = message_queue)))]_vars

\* a poll that follows a failed termination and still observes the process
\* makes no attempt
C27_Witness ==
    /\ procLast.op = "ace_poll"
    /\ procLast.failedRun
    /\ procLast.found # 0
    /\ procLast.flagBefore
    /\ procLast.attempts = 0
    /\ anticheat_killed
    /\ running

(***************************************************************************)
(* The popup monitor thread and a UI query on the shared process cache     *)
(***************************************************************************)
InitRace == ParkSvc /\ ParkProc /\ ParkMem /\ ParkTune /\ ParkPriv

NextRace ==
    \/ StartMonitors(ScmUp) /\ UNCHANGED <<memVars, tuneVars, privVars>>
    \/ StopMonitors /\ UNCHANGED <<svcVars, memVars, tuneVars, privVars>>
    \/ Spawn({anticheat_name}, {AllCores(cores)}, {"Normal"}, {FullAccess})
          /\ UNCHANGED <<svcVars, memVars, tuneVars, privVars>>
    \/ ProcExit /\ UNCHANGED <<svcVars, memVars, tuneVars, privVars>>
    \/ ProcTick /\ UNCHANGED <<svcVars, memVars, tuneVars, privVars>>
    \/ Consume /\ UNCHANGED <<svcVars, memVars, tuneVars, privVars>>
    \/ WQuery({anticheat_name}) /\ UNCHANGED <<svcVars, memVars, tuneVars, privVars>>
    \/ WTop /\ UNCHANGED <<svcVars, memVars, tuneVars, privVars>>
    \/ (\E t \in Threads : WRefresh(t)) /\ UNCHANGED <<svcVars, memVars, tuneVars, privVars>>
    \/ (\E t \in Threads : WFill(t)) /\ UNCHANGED <<svcVars, memVars, tuneVars, privVars>>
    \/ (\E t \in Threads : WLookup(t)) /\ UNCHANGED <<svcVars, memVars, tuneVars, privVars>>
    \/ (\E t \in Threads : WGet(t)) /\ UNCHANGED <<svcVars, memVars, tuneVars, privVars>>
    \/ (\E t \in Threads : WVerify(t)) /\ UNCHANGED <<svcVars, memVars, tuneVars, privVars>>
    \/ (\E t \in Threads : WEvict(t)) /\ UNCHANGED <<svcVars, memVars, tuneVars, privVars>>
    \/ (\E t \in Threads : WIterate(t)) /\ UNCHANGED <<svcVars, memVars, tuneVars, privVars>>
    \/ (\E t \in Threads : WReturn(t)) /\ UNCHANGED <<svcVars, memVars, tuneVars, privVars>>
    \/ (\E t \in Threads : WKill(t)) /\ UNCHANGED <<svcVars, memVars, tuneVars, privVars>>
    \/ (\E t \in Threads : WKillIn(t)) /\ UNCHANGED <<svcVars, memVars, tuneVars, privVars>>
    \/ (\E t \in Threads : WKillDel(t)) /\ UNCHANGED <<svcVars, memVars, tuneVars, privVars>>

SpecRace == InitRace /\ [][NextRace]_vars

\* C14: a monitor thread ends only because the stop flag was raised, never
\* because an exception left the body of a poll.
C14_OnlyStopEnds == acePc = "done" => walk["ace"].exit = "stop"

\* C16: no lookup or eviction on the shared cache fails with a KeyError, and a
\* lookup that returns gives None or a process that is running.
C16_CacheSafe ==
    \A t \in Threads :
       /\ walk[t].err = "none"
       /\ (walk[t].pc = "return" => (walk[t].res = 0 \/ walk[t].resAlive))

(***************************************************************************)
(* The notification queue under add_message, toggling and the consumer     *)
(***************************************************************************)
\* messages counted while the consumer does not take any
MaxBacklog == 5
StatusMessages == {"killed", "optimized"}

InitQueue == ParkSvc /\ ParkProc /\ ParkMem /\ ParkTune /\ ParkPriv
NextQueue ==
    \/ (Len(message_queue) < MaxBacklog /\ Notify(StatusMessages))
          /\ UNCHANGED <<svcVars, memVars, tuneVars, privVars>>
    \/ ToggleNotifications /\ UNCHANGED <<svcVars, memVars, tuneVars, privVars>>
    \/ Consume /\ UNCHANGED <<svcVars, memVars, tuneVars, privVars>>
SpecQueue == InitQueue /\ [][NextQueue]_vars

\* C20: a call of add_message appends its message to the outbound queue when
\* notifications are enabled at that moment and leaves the queue unchanged when
\* they are disabled, and the put never waits, whatever the length of the queue
\* and whether or not the consumer has taken anything.
C20_EnqueueOnlyIfEnabled ==
    [][(procLast'.op = "add_message"
          /\ (procLast' # procLast \/ Len(message_queue') > Len(message_queue)))
         => (/\ message_queue' = (IF show_notifications
                                  THEN Append(message_queue, procLast'.name)
                                  ELSE message_queue)
             /\ ~procLast'.waits)]_vars

\* a message was appended behind a backlog of four that the consumer has not
\* taken, and notifications were switched off afterwards
C20_Witness ==
    /\ procLast.op = "add_message"
    /\ procLast.notif
    /\ procLast.enq = 1
    /\ Len(message_queue) = MaxBacklog
    /\ ~show_notifications

(***************************************************************************)
(* Shutdown of the background loops                                        *)
(***************************************************************************)
InitLoops == ParkSvc /\ ParkProc /\ ParkMem /\ ParkTune /\ ParkPriv
NextLoops ==
    \/ (\E o \in LoopOwners : StartLoops(o)) /\ UNCHANGED <<svcVars, procVars, memVars, privVars>>
    \/ (\E o \in LoopOwners : StopLoops(o)) /\ UNCHANGED <<svcVars, procVars, memVars, privVars>>
    \/ (\E s \in LoopSlots : LoopStep(s)) /\ UNCHANGED <<svcVars, procVars, memVars, privVars>>
SpecLoops == InitLoops /\ [][NextLoops]_vars

\* every thread is scheduled again and again: it takes its next statement
SpecStop ==
    SpecLoops /\ \A s \in LoopSlots :
                    WF_vars(LoopStep(s) /\ UNCHANGED <<svcVars, procVars, memVars, privVars>>)

\* C15: once the stop flag of a background loop is raised (its running flag is
\* down) and stays so, every thread of that loop eventually exits; a scheduler
\* thread that tests the flag before a slice and finds it down leaves the sleep,
\* and no thread begins more than one sleep after the flag went down.
C15_CooperativeShutdown ==
    /\ [](\A s \in LoopSlots : loopThreads[s].late <= 1)
    /\ [][\A s \in LoopSlots :
            (/\ loopThreads[s].pc = "check"
             /\ ~loopFlag[OwnerOf(s[1])] /\ ~loopFlag'[OwnerOf(s[1])]
             /\ loopThreads'[s] # loopThreads[s])
              => loopThreads'[s].pc = "head"]_vars
    /\ \A s \in LoopSlots :
          (<>[](~loopFlag[OwnerOf(s[1])])) => <>[](loopThreads[s].pc = "none")

\* the reclaim scheduler was stopped during a sleep, slept the slice it had
\* begun, found the flag down with 13 of its 15 slices left and is back at the
\* while test, where it exits
C15_Witness ==
    /\ ~loopFlag["cleaner"]
    /\ loopThreads[<<"cleaner", 1>>].pc = "head"
    /\ loopThreads[<<"cleaner", 1>>].brokeAt = 13
    /\ loopThreads[<<"cleaner", 1>>].late = 1

(***************************************************************************)
(* The scanner monitor                                                     *)
(***************************************************************************)
\* affinities the scanner process may start with: every core (the default) or
\* every core but the last
ScanAffinities == {AllCores(cores), AllCores(cores) \ {cores - 1}} \ {{}}
ScanRights == {FullAccess, FullAccess \ {"setaff"}}

InitScan == ParkSvc /\ ParkProc /\ ParkMem /\ ParkTune /\ ParkPriv

NextScan ==
    \/ ScanPoll /\ UNCHANGED <<svcVars, memVars, tuneVars, privVars>>
    \/ Spawn({scanprocess_name}, ScanAffinities, {"Normal"}, ScanRights)
          /\ UNCHANGED <<svcVars, memVars, tuneVars, privVars>>
    \/ ProcExit /\ UNCHANGED <<svcVars, memVars, tuneVars, privVars>>
    \/ ProcTick /\ UNCHANGED <<svcVars, memVars, tuneVars, privVars>>
    \/ StartMonitors(ScmUp) /\ UNCHANGED <<memVars, tuneVars, privVars>>
    \/ StopMonitors /\ UNCHANGED <<svcVars, memVars, tuneVars, privVars>>
    \/ Consume /\ UNCHANGED <<svcVars, memVars, tuneVars, privVars>>

SpecScan == InitScan /\ [][NextScan]_vars

\* The scanner monitor over processes that start unoptimized (the last core is
\* not in their affinity) and whose tuning can fail: at OpenProcess ("open"
\* refused, nothing applied) or at the affinity call ("setaff" refused, the
\* priority already lowered)
RetryAffinities == {AllCores(cores) \ {cores - 1}} \ {{}}
RetryRights == {FullAccess, FullAccess \ {"setaff"}, FullAccess \ {"open"}}

InitRetry == ParkSvc /\ ParkProc /\ ParkMem /\ ParkTune /\ ParkPriv

NextRetry ==
    \/ ScanPoll /\ UNCHANGED <<svcVars, memVars, tuneVars, privVars>>
    \/ Spawn({scanprocess_name}, RetryAffinities, {"Normal"}, RetryRights)
          /\ UNCHANGED <<svcVars, memVars, tuneVars, privVars>>
    \/ ProcExit /\ UNCHANGED <<svcVars, memVars, tuneVars, privVars>>
    \/ ProcTick /\ UNCHANGED <<svcVars, memVars, tuneVars, privVars>>
    \/ StartMonitors(ScmUp) /\ UNCHANGED <<memVars, tuneVars, privVars>>
    \/ StopMonitors /\ UNCHANGED <<svcVars, memVars, tuneVars, privVars>>
    \/ Consume /\ UNCHANGED <<svcVars, memVars, tuneVars, privVars>>

SpecRetry == InitRetry /\ [][NextRetry]_vars

\* The two monitor threads statement by statement, under starts and stops from
\* the UI thread (_toggle_process_monitor); the popup process can be started
\* and ends only by the popup monitor's kill, the scanner process is absent,
\* and every system call is granted
InitLife == ParkSvc /\ ParkProc /\ ParkMem /\ ParkTune /\ ParkPriv

NextLife ==
    \/ StartMonitorsAt(ScmUp, "head") /\ UNCHANGED <<memVars, tuneVars, privVars>>
    \/ StopMonitors /\ UNCHANGED <<svcVars, memVars, tuneVars, privVars>>
    \/ (\E m \in Monitors : MonHead(m)) /\ UNCHANGED <<svcVars, memVars, tuneVars, privVars>>
    \/ AceWork /\ UNCHANGED <<svcVars, memVars, tuneVars, privVars>>
    \/ ScanWork /\ UNCHANGED <<svcVars, memVars, tuneVars, privVars>>
    \/ (\E m \in Monitors : MonSleep(m)) /\ UNCHANGED <<svcVars, memVars, tuneVars, privVars>>
    \/ (\E m \in Monitors : MonExit(m)) /\ UNCHANGED <<svcVars, memVars, tuneVars, privVars>>
    \/ Spawn({anticheat_name}, RetryAffinities, {"Normal"}, {FullAccess})
          /\ UNCHANGED <<svcVars, memVars, tuneVars, privVars>>
    \/ Consume /\ UNCHANGED <<svcVars, memVars, tuneVars, privVars>>

SpecLife == InitLife /\ [][NextLife]_vars

\* C36: whenever start_monitors was the last call and has returned (running is
\* true), a popup-monitor thread and a scanner-monitor thread are alive and
\* polling (at the while test, in the body or asleep); a stop followed at once
\* by a start leaves no loop without a live polling thread
C36_RunningHasPollingThreads ==
    running => (MonAlive_polling(acePc) /\ MonAlive_polling(scanPc))

\* C38: once stop_monitors has returned and both monitor threads have exited,
\* with no start since, the popup handled flag and the scanner optimized flag
\* are both false
C38_FlagsDownAfterStop ==
    (~running /\ ~MonAlive(acePc) /\ ~MonAlive(scanPc))
       => (~anticheat_killed /\ ~scanprocess_optimized)

\* C4: a scanner process observed with all-core affinity and Normal priority
\* (both readable) is reported unoptimized by the poll's check and the poll
\* makes a tuning attempt on it.
C4_DefaultIsUnoptimized ==
    (/\ procLast.op = "scan_poll"
     /\ procLast.found # 0
     /\ procLast.affBefore = AllCores(cores)
     /\ procLast.prioBefore = "Normal"
     /\ procLast.accBefore = FullAccess)
       => (~procLast.optimized /\ procLast.attempts = 1)

\* what the lenient rule of check_process_status names: one core or the last
\* core in the affinity, a low priority class, or a check refused by the system
LenientRule(aff, prio, acc, n) ==
    \/ Cardinality(aff) = 1
    \/ (n - 1) \in aff
    \/ prio \in {"Idle", "BelowNormal"}
    \/ "readaff" \notin acc
    \/ "readprio" \notin acc

\* C28: for a running scanner process the check reports "optimized" exactly
\* when its affinity is one core or includes the last core, or its priority is
\* Idle or BelowNormal, or one of the two checks raised an access or
\* no-such-process error
C28_OptimizedIffLenientRule ==
    (procLast.op = "scan_poll" /\ procLast.found # 0)
       => (procLast.optimized
              <=> LenientRule(procLast.affBefore, procLast.prioBefore,
                              procLast.accBefore, cores))

\* the scanner polls of one step
IsScanPoll == scanCounter' # scanCounter /\ procLast'.op = "scan_poll"

\* C29: a scanner poll whose tuning fails queues no event and does not raise
\* the optimized flag; every poll that finds the process running and
\* unoptimized attempts the tuning, also after earlier failures; an event is
\* queued only by a poll whose tuning succeeded
C29_FailedTuningRetried ==
    (procLast.op = "scan_poll")
       => (/\ (procLast.failedRun
                 => (/\ procLast.enq = 0
                     /\ scanprocess_optimized = procLast.flagBefore))
           /\ (procLast.attempts = 1 <=> (procLast.found # 0 /\ ~procLast.optimized))
           /\ (procLast.attempts = 0 => ~procLast.failedRun /\ ~procLast.tuned)
           /\ (procLast.enq # 0 => (procLast.enq = 1 /\ procLast.tuned))
           /\ (procLast.tuned => scanprocess_optimized))

\* a poll whose tuning fails right after a poll whose tuning failed on the same
\* process, with the flag still down and nothing queued
C29_Witness ==
    /\ procLast.op = "scan_poll"
    /\ procLast.failedRun
    /\ procLast.prevFailed = procLast.found
    /\ procLast.attempts = 1
    /\ procLast.enq = 0
    /\ procLast.notif
    /\ ~scanprocess_optimized

\* C30: a scanner poll that does not observe the process leaves the optimized
\* flag false, and the flag is false at the start of the first poll that
\* observes a new occurrence of the process
C30_FlagClearedWhenAbsent ==
    [][IsScanPoll
          => (/\ (procLast'.found = 0 => ~scanprocess_optimized')
              /\ ((/\ procLast'.found # 0
                    /\ ~(procLast.op = "scan_poll" /\ procLast.found = procLast'.found))
                    => ~scanprocess_optimized))]_vars

(***************************************************************************)
(* The memory-reclaim scheduler                                            *)
(***************************************************************************)
InitMem == ParkSvc /\ ParkProc /\ ParkMem /\ ParkTune /\ ParkPriv

NextMem ==
    \/ SetCleanOption /\ UNCHANGED <<svcVars, procVars, tuneVars, privVars>>
    \/ ToggleMemoryCleanup /\ UNCHANGED <<svcVars, procVars, tuneVars, privVars>>
    \/ (\E th \in ThreadIds : SchedIterate(th)) /\ UNCHANGED <<svcVars, procVars, tuneVars, privVars>>
    \/ (\E th \in ThreadIds : SchedStamp(th)) /\ UNCHANGED <<svcVars, procVars, tuneVars, privVars>>
    \/ (\E th \in ThreadIds : SchedWake(th)) /\ UNCHANGED <<svcVars, procVars, tuneVars, privVars>>
    \/ MemTick /\ UNCHANGED <<svcVars, procVars, tuneVars, privVars>>

SpecMem == InitMem /\ [][NextMem]_vars

\* the scheduler threads whose _cleaner_thread_func has not returned
LiveThreads == {th \in ThreadIds : threads[th].pc # "none"}

\* C37: at most one memory-reclaim scheduler loop is executing at any time,
\* also after the scheduler was stopped and started again
C37_OneSchedulerThread == Cardinality(LiveThreads) <= 1

\* C5: two threshold-triggered rounds are never issued less than cooldown_time
\* seconds apart, stops and restarts of the scheduler included.
C5_CooldownFloor ==
    (memLast.thrN >= 2) => (memLast.thrT - memLast.thrPrev >= memLast.thrCd)

\* C21: after any sequence of set_clean_option calls and enable/disable toggles
\* the scheduler is marked running exactly when the cleaner is enabled and at
\* least one of the six switches is on.
C21_RunningIffEnabledAndSwitch ==
    mc_running <=> (mc_enabled /\ any(clean_switches))

\* the last switch was turned off while the cleaner stayed enabled: the running
\* flag is down although the thread has not yet seen it
C21_Witness ==
    /\ mc_enabled
    /\ ~any(clean_switches)
    /\ ~mc_running
    /\ \E th \in ThreadIds : threads[th].pc # "none"

\* thread th makes a pass of its loop / a fixed-interval round in this step
IterStep(th) == threads[th].pc = "loop" /\ threads'[th].pc \in {"stamp", "sleep"}
FixedRound(th) ==
    IterStep(th) /\ threads'[th].last_clean_time # threads[th].last_clean_time

\* ops holds, in the order trim, flush, clean_all, exactly the operations whose
\* switches a, b, c are on
SelectedOps(ops, sw, a, b, c) ==
    LET want == <<sw[a], sw[b], sw[c]>>
        name == <<"trim", "flush", "clean_all">>
        pos(i) == Cardinality({k \in 1..i : want[k]})
    IN /\ Len(ops) = pos(3)
       /\ \A i \in 1..3 : want[i] => ops[pos(i)] = name[i]

\* C24: a pass in which one of the switches 3-5 is on, utilisation is at least
\* the threshold and at least cooldown_time seconds have passed since the last
\* threshold-triggered clean invokes exactly the operations of the switches 3, 4
\* and 5 that are on; and the round is stamped with the time of that pass.
C24_ThresholdRound ==
    [][\A th \in ThreadIds :
         /\ (/\ IterStep(th)
             /\ clean_switches[3] \/ clean_switches[4] \/ clean_switches[5]
             /\ threads'[th].pct >= threshold
             /\ memNow - last_threshold_clean >= cooldown_time)
              => (/\ threads'[th].pc = "stamp"
                  /\ threads'[th].cur = memNow
                  /\ memLast'.kind = "threshold"
                  /\ SelectedOps(memLast'.ops, clean_switches, 3, 4, 5))
         /\ (threads[th].pc = "stamp" /\ threads'[th].pc = "sleep")
              => last_threshold_clean' = threads[th].cur]_vars

\* C25: a fixed-interval round invokes exactly the operations whose switches 0,
\* 1, 2 are on, in the order trim, flush, clean_all; it comes at least
\* clean_interval seconds after the fixed-interval round before it, and at least
\* clean_interval seconds after its thread started.
C25_FixedRound ==
    [][\A th \in ThreadIds :
         FixedRound(th)
           => (/\ memLast'.kind = "fixed"
               /\ SelectedOps(memLast'.ops, clean_switches, 0, 1, 2)
               /\ (memLast.fixT # 0 => memNow - memLast.fixT >= clean_interval)
               /\ memNow - threads[th].born >= clean_interval)]_vars

\* C26: a pass in which one of the switches 0-2 is on and the interval has
\* passed makes a fixed-interval round whatever the time since the last
\* threshold-triggered clean, and leaves last_threshold_clean as it was.
C26_FixedIgnoresCooldown ==
    [][\A th \in ThreadIds :
         (/\ IterStep(th)
          /\ clean_switches[0] \/ clean_switches[1] \/ clean_switches[2]
          /\ memNow - threads[th].last_clean_time > clean_interval)
           => (/\ FixedRound(th)
               /\ memLast'.kind = "fixed"
               /\ memLast'.fixT = memNow
               /\ last_threshold_clean' = last_threshold_clean)]_vars

\* a fixed-interval round half a minute after a threshold-triggered clean, inside
\* its cooldown
C26_Witness ==
    /\ memLast.kind = "fixed"
    /\ memLast.fixT = memNow
    /\ last_threshold_clean # 0
    /\ memLast.fixT - last_threshold_clean < cooldown_time

(***************************************************************************)
(* The tunables of the memory cleaner                                      *)
(***************************************************************************)
\* arguments of the three setters, at and around the limits
IntervalArgs == {59, 60, 61, 3600, 3601}
ThresholdArgs == {14, 15, 50, 95, 96}
CooldownArgs == {29, 30, 300, 301}
\* memory_cleaner sections of a configuration file
ConfigFiles ==
    [enabled : BOOLEAN, brute_mode : BOOLEAN,
     switches : {[i \in Switches |-> FALSE], [i \in Switches |-> i = 0]},
     interval : {59, 4000}, threshold : {10, 96}, cooldown : {29, 400}]

InitTunables == ParkSvc /\ ParkProc /\ ParkMem /\ ParkTune /\ ParkPriv
NextTunables ==
    \/ SetCleanInterval(IntervalArgs) /\ UNCHANGED <<svcVars, procVars, tuneVars, privVars>>
    \/ SetMemoryThreshold(ThresholdArgs) /\ UNCHANGED <<svcVars, procVars, tuneVars, privVars>>
    \/ SetCooldownTime(CooldownArgs) /\ UNCHANGED <<svcVars, procVars, tuneVars, privVars>>
    \/ UpdateFromConfig(ConfigFiles) /\ UNCHANGED <<svcVars, procVars, tuneVars>>
SpecTunables == InitTunables /\ [][NextTunables]_vars

\* C22: after any sequence of setter calls and configuration updates the
\* tunables satisfy clean_interval in [60, 3600], threshold in [15, 95] and
\* cooldown_time in [30, 300].
C22_TunablesInRange ==
    /\ clean_interval \in 60..3600
    /\ threshold \in 15..95
    /\ cooldown_time \in 30..300

(***************************************************************************)
(* The process tuner applied to one process                                *)
(***************************************************************************)
InitTune ==
    /\ ParkSvc /\ ParkProc /\ ParkMem /\ ParkPriv
    /\ tprocs = [i \in TPids |-> TUnborn]
    /\ cpu_count \in 1..MaxCores
    /\ tuneLast = NoTune
    /\ byNameLast = NoByName
    /\ ParkLoops

NextTune ==
    \/ Apply({1}, {NoPriority, IoPriorityVeryLow})
          /\ UNCHANGED <<svcVars, procVars, memVars, privVars>>
    \/ TSpawn({1}, {scanprocess_name}, SUBSET Steps)
          /\ UNCHANGED <<svcVars, procVars, memVars, privVars>>
    \/ TExit /\ UNCHANGED <<svcVars, procVars, memVars, privVars>>

SpecTune == InitTune /\ [][NextTune]_vars

\* C6: a call of set_process_io_priority that repeats the previous call (same
\* process, mode and priority, nothing else having acted in between) leaves the
\* process's I/O priority, priority class, affinity and throttle state as they
\* were, and succeeds if the previous call succeeded.
C6_Idempotent ==
    [][tuneLast'.rep
         => (LET p == tuneLast'.pid
             IN /\ tprocs'[p].io = tprocs[p].io
                /\ tprocs'[p].prio = tprocs[p].prio
                /\ tprocs'[p].affinity = tprocs[p].affinity
                /\ tprocs'[p].throttle = tprocs[p].throttle
                /\ (tuneLast.ok => tuneLast'.ok))]_vars

\* a second Eco call on a multi-core machine that succeeded on a process already
\* in the Eco state
C6_Witness ==
    /\ tuneLast.rep
    /\ tuneLast.ok
    /\ tuneLast.mode = ECO_MODE
    /\ tuneLast.priority = NoPriority
    /\ cpu_count > 1
    /\ tprocs[1].throttle
    /\ tprocs[1].affinity = {cpu_count - 1}
    /\ tprocs[1].io = IoPriorityLow

\* C7: after a call in which every step succeeded the process has priority
\* class Idle / Normal / High / Realtime for Eco / Normal / High / Maximum,
\* throttling on iff the mode is Eco and, with more than one core, affinity
\* {last core} for Eco and every core otherwise; with one core the affinity
\* step counts as a success whatever the OS would have answered and the
\* affinity is left as it was.
C7_ModeMapping ==
    (tuneLast.clean /\ tuneLast.pid # 0 /\ tuneLast.ok)
       => (LET p == tprocs[tuneLast.pid]
               m == tuneLast.mode
               r == tuneLast.results
           IN /\ ((r.io /\ r.cpu /\ r.aff /\ r.pow)
                    => (/\ p.prio = (CASE m = ECO_MODE -> "Idle"
                                       [] m = NORMAL_MODE -> "Normal"
                                       [] m = HIGH_PERFORMANCE -> "High"
                                       [] m = MAXIMUM_PERFORMANCE -> "Realtime")
                        /\ p.throttle = (m = ECO_MODE)
                        /\ (cpu_count > 1
                              => p.affinity = (IF m = ECO_MODE THEN {cpu_count - 1}
                                               ELSE 0..(cpu_count - 1)))))
              /\ (cpu_count <= 1 => (r.aff /\ p.affinity = 0..(cpu_count - 1))))

\* a fully successful Eco call on a machine with more than two cores
C7_Witness ==
    /\ tuneLast.clean
    /\ tuneLast.pid = 1
    /\ tuneLast.ok
    /\ tuneLast.results = [io |-> TRUE, cpu |-> TRUE, aff |-> TRUE, pow |-> TRUE]
    /\ tuneLast.mode = ECO_MODE
    /\ cpu_count > 2
    /\ tprocs[1].prio = "Idle"
    /\ tprocs[1].affinity = {cpu_count - 1}
    /\ tprocs[1].throttle

\* C9: set_process_io_priority returns true exactly when the I/O-priority
\* step can succeed on the process, whatever the OS answers to the priority
\* class, affinity and throttle steps.
C9_ReturnsIoStep ==
    (tuneLast.clean /\ tuneLast.pid # 0)
       => (tuneLast.ok <=> (/\ tprocs[tuneLast.pid].st = "alive"
                            /\ "io" \notin tprocs[tuneLast.pid].faults))

\* a call that returned true although the three other steps all failed
C9_Witness ==
    /\ tuneLast.clean
    /\ tuneLast.pid = 1
    /\ tuneLast.ok
    /\ cpu_count > 1
    /\ tprocs[1].faults = {"cpu", "aff", "pow"}
    /\ tuneLast.results = [io |-> TRUE, cpu |-> FALSE, aff |-> FALSE, pow |-> FALSE]

(***************************************************************************)
(* Privilege negotiation and the working-set trim                          *)
(***************************************************************************)
InitPriv ==
    /\ ParkSvc /\ ParkProc /\ ParkMem /\ ParkTune
    /\ privOutcome = [p \in Privileges |-> "none"]
    /\ tokenOK = FALSE
    /\ available_functions = NoFunctions
    /\ negotiated = FALSE
    /\ brute_mode = TRUE
    /\ mprocs \in [MPids -> {[granted |-> g] : g \in GrantChoices}]
    /\ trimLast = NoTrim
    /\ privilege_details = NoDetails
    /\ requestLog = <<>>
    /\ total_cleaned_mb = 0
    /\ clean_count = 0
    /\ cleaners = [c \in Cleaners |-> IdleCleaner]
    /\ statDone = NoStats
    /\ cleanLast = NoClean

\* answers of the OS to the seven requests: the privileges of a tier other than
\* the debug privilege share one answer
TierOutcomes ==
    {out \in [Privileges -> Outcomes] :
        /\ out[core_privileges[1]] = out[core_privileges[2]]
        /\ out[enhanced_privileges[2]] = out[enhanced_privileges[3]]
        /\ out[process_privileges[1]] = out[process_privileges[2]]
        /\ out[core_privileges[1]] # "raise"
        /\ out[process_privileges[1]] # "raise"}

NextPriv ==
    \/ Negotiate(TierOutcomes) /\ UNCHANGED <<svcVars, procVars, memVars, tuneVars>>
    \/ ToggleBruteMode /\ UNCHANGED <<svcVars, procVars, memVars, tuneVars>>
    \/ Trim(1, NtStatuses, {-1, 2}) /\ UNCHANGED <<svcVars, procVars, memVars, tuneVars>>
    \/ Record(1) /\ UNCHANGED <<svcVars, procVars, memVars, tuneVars>>

SpecPriv == InitPriv /\ [][NextPriv]_vars

C12_BruteOrIndividual ==
    trimLast.called
       => (/\ (trimLast.system_wide <=> (trimLast.brute /\ trimLast.capable))
           /\ (trimLast.individual <=> (~trimLast.system_wide \/ trimLast.status # 0))
           /\ ~(trimLast.system_wide /\ trimLast.status = 0 /\ trimLast.individual)
           /\ (~trimLast.individual => trimLast.requested = {} /\ trimLast.emptied = {}))

\* a brute-mode trim whose system-wide call returned 0: no process was opened
C12_Witness ==
    /\ trimLast.called
    /\ trimLast.brute
    /\ trimLast.capable
    /\ trimLast.system_wide
    /\ trimLast.status = 0
    /\ ~trimLast.individual
    /\ trimLast.requested = {}

(***************************************************************************)
(* The privilege negotiation under every answer of the OS                  *)
(***************************************************************************)
InitNeg == ParkSvc /\ ParkProc /\ ParkMem /\ ParkTune /\ ParkPriv

NextNeg ==
    \/ Negotiate([Privileges -> Outcomes]) /\ UNCHANGED <<svcVars, procVars, memVars, tuneVars>>
    \/ ToggleBruteMode /\ UNCHANGED <<svcVars, procVars, memVars, tuneVars>>

SpecNeg == InitNeg /\ [][NextNeg]_vars

\* the requests of a tier that succeeded
Granted(tier) == {i \in DOMAIN tier : privOutcome[tier[i]] = "ok"}

\* C17: after a negotiation that made the seven requests, trim_all_processes,
\* flush_system_cache and purge_standby_list are true iff a core privilege was
\* granted; memory_combine iff an enhanced one was; set_process_io_priority and
\* set_process_priority iff an enhanced or a process privilege was;
\* debug_other_processes iff the debug privilege itself was.
C17_CapabilityDerivation ==
    (negotiated /\ tokenOK)
       => (/\ \A f \in {"trim_all_processes", "flush_system_cache", "purge_standby_list"} :
                 available_functions[f] <=> Granted(core_privileges) # {}
           /\ available_functions["memory_combine"] <=> Granted(enhanced_privileges) # {}
           /\ \A f \in {"set_process_io_priority", "set_process_priority"} :
                 available_functions[f] <=>
                    (Granted(enhanced_privileges) # {} \/ Granted(process_privileges) # {})
           /\ available_functions["debug_other_processes"]
                 <=> privOutcome[SE_DEBUG_NAME] = "ok")

\* only the second core privilege and the system-time privilege were granted:
\* the core flags and the priority flags are true, memory_combine and
\* debug_other_processes are false
C17_Witness ==
    /\ negotiated /\ tokenOK
    /\ Granted(core_privileges) = {2}
    /\ Granted(enhanced_privileges) = {}
    /\ Granted(process_privileges) = {2}
    /\ available_functions["trim_all_processes"]
    /\ available_functions["set_process_priority"]
    /\ ~available_functions["memory_combine"]
    /\ ~available_functions["debug_other_processes"]

\* C18: a negotiation requests each of the seven privileges once, in the order
\* core, enhanced, process, whatever the earlier requests returned, and keeps
\* for each a result that says success or failure and, on failure, holds the
\* error code.
C18_EveryRequestRecorded ==
    (negotiated /\ tokenOK)
       => (/\ requestLog = core_privileges \o enhanced_privileges \o process_privileges
           /\ \A p \in Privileges :
                 /\ privilege_details[p].success <=> privOutcome[p] = "ok"
                 /\ (~privilege_details[p].success => privilege_details[p].error_code # NoCode))

(***************************************************************************)
(* clean_memory_all under every combination of status codes                *)
(***************************************************************************)
\* at most one call of an operation raises
RaiseSets == {{}} \cup {{k} : k \in StepIds}

InitCleanAll == ParkSvc /\ ParkProc /\ ParkMem /\ ParkTune /\ ParkPriv

NextCleanAll ==
    \/ CleanAll(1, [StepIds -> NtStatuses], RaiseSets, {-1, 2})
          /\ UNCHANGED <<svcVars, procVars, memVars, tuneVars>>
    \/ Record(1) /\ UNCHANGED <<svcVars, procVars, memVars, tuneVars>>

SpecCleanAll == InitCleanAll /\ [][NextCleanAll]_vars

\* C11: whatever status codes the six calls of clean_memory_all return, the
\* calls issued are, in this order, physical-memory combine, system-cache flush,
\* process-working-set empty, low-priority standby purge, standby purge and
\* modified-page-list flush; each non-success status is logged and the amount
\* is recorded.
C11_SixCallsInOrder ==
    (cleanLast.called /\ cleanLast.raises = {})
       => (/\ Len(cleanLast.calls) = 6
           /\ cleanLast.calls[1].info = SystemCombinePhysicalMemoryInformation
           /\ cleanLast.calls[2].info = SystemFileCacheInformation
           /\ \A k \in 3..6 : cleanLast.calls[k].info = SystemMemoryListInformation
           /\ cleanLast.calls[3].cmd = MemoryEmptyWorkingSets
           /\ cleanLast.calls[4].cmd = MemoryPurgeLowPriorityStandbyList
           /\ cleanLast.calls[5].cmd = MemoryPurgeStandbyList
           /\ cleanLast.calls[6].cmd = MemoryFlushModifiedList
           /\ cleanLast.warned = {k \in StepIds : cleanLast.status[k] # 0}
           /\ cleanLast.recorded)

\* a clean_memory_all whose six calls all returned a non-success status
C11_Witness ==
    /\ cleanLast.called
    /\ cleanLast.raises = {}
    /\ \A k \in StepIds : cleanLast.status[k] # 0
    /\ Len(cleanLast.calls) = 6
    /\ cleanLast.recorded

(***************************************************************************)
(* CleanStats under manual and scheduled reclaims                          *)
(***************************************************************************)
\* the OS grants every request or none
AllOrNothing == {[p \in Privileges |-> o] : o \in {"ok", "denied"}}

\* STATUS_SUCCESS and a failure status (1 stands for any non-zero NTSTATUS)
FlushStatuses == {0, 1}

InitStats == ParkSvc /\ ParkProc /\ ParkMem /\ ParkTune /\ ParkPriv

NextStats ==
    \/ Negotiate(AllOrNothing) /\ UNCHANGED <<svcVars, procVars, memVars, tuneVars>>
    \/ (\E c \in Cleaners : Trim(c, {0}, Deltas))
          /\ UNCHANGED <<svcVars, procVars, memVars, tuneVars>>
    \/ (\E c \in Cleaners : Flush(c, FlushStatuses, Deltas))
          /\ UNCHANGED <<svcVars, procVars, memVars, tuneVars>>
    \/ (\E c \in Cleaners : CleanAll(c, {[k \in StepIds |-> 0]}, {{}, {2}}, Deltas))
          /\ UNCHANGED <<svcVars, procVars, memVars, tuneVars>>
    \/ (\E c \in Cleaners : Record(c))
          /\ UNCHANGED <<svcVars, procVars, memVars, tuneVars>>

SpecStats == InitStats /\ [][NextStats]_vars

\* C13: whenever no reclaim operation is in progress, clean_count equals the
\* number of operations that completed and total_cleaned_mb equals the sum of
\* the amounts they reported.
C13_NoLostUpdate ==
    (\A c \in Cleaners : cleaners[c].pc = "idle")
       => (clean_count = statDone.n /\ total_cleaned_mb = statDone.sum)

\* C33: total_cleaned_mb and clean_count never decrease; a reclaim operation
\* that completes its record adds its non-negative amount to total_cleaned_mb
\* and exactly 1 to clean_count, and nothing resets them
C33_StatsMonotone ==
    [][/\ total_cleaned_mb' >= total_cleaned_mb
       /\ clean_count' >= clean_count
       /\ (total_cleaned_mb' # total_cleaned_mb
             => \E c \in Cleaners :
                   /\ cleaners[c].pc = "store_total"
                   /\ cleaners[c].mb >= 0
                   /\ total_cleaned_mb' = total_cleaned_mb + cleaners[c].mb)
       /\ (statDone'.n # statDone.n => clean_count' = clean_count + 1)]_vars

\* C34: a flush_system_buffer whose system call returned a non-success status
\* reports 0 MB reclaimed
C34_FailedFlushReportsZero ==
    \A c \in Cleaners :
       (cleaners[c].pc # "idle" /\ cleaners[c].st # 0) => cleaners[c].mb = 0

(***************************************************************************)
(* The cycle of the tuning service                                         *)
(***************************************************************************)
InitCycle == ParkSvc /\ ParkProc /\ ParkMem /\ ParkTune /\ ParkPriv
NextCycle ==
    \/ Cycle(TrackedLists) /\ UNCHANGED <<svcVars, procVars, memVars, privVars>>
    \/ TSpawn(TPids, {"SGuard64.exe", "Other.exe", ""}, {{}, {"io"}})
          /\ UNCHANGED <<svcVars, procVars, memVars, privVars>>
    \/ TExit /\ UNCHANGED <<svcVars, procVars, memVars, privVars>>
SpecCycle == InitCycle /\ [][NextCycle]_vars

\* the calls a cycle owes to its list: one per well-formed entry, in order
ExpectedCalls(list) ==
    LET ws == SelectSeq(list, LAMBDA e : e.wf)
    IN [i \in 1..Len(ws) |-> <<ws[i].name, EntryMode(ws[i])>>]

\* process pr carries the attributes of mode on a machine with n cores
TunedAs(pr, mode, n) ==
    /\ pr.io = IO_PRIORITY_MAP(mode)
    /\ pr.prio = CPU_PRIORITY_MAP(mode)
    /\ pr.throttle = (mode = ECO_MODE)
    /\ n > 1 => pr.affinity = (IF mode = ECO_MODE THEN {n - 1} ELSE 0..(n - 1))

\* C23: a cycle calls set_process_io_priority_by_name once for every well-formed
\* entry of the tracked list, in order, with the stored mode or Eco, skipping
\* malformed entries; and after the cycle every running process that the OS lets
\* be tuned and whose name matches an entry carries the attributes of the mode of
\* the last such entry, whenever it was started.
C23_EveryEntryReapplied ==
    [][cycleLast'.seq # cycleLast.seq =>
         LET list == cycleLast'.list
         IN /\ cycleLast'.calls = ExpectedCalls(list)
            /\ \A i \in TPids, j \in DOMAIN list :
                  (/\ tprocs'[i].st = "alive"
                   /\ tprocs'[i].faults = {}
                   /\ list[j].wf
                   /\ tprocs'[i].name # ""
                   /\ Lower(tprocs'[i].name) = Lower(list[j].name)
                   /\ \A k \in DOMAIN list :
                         (k > j /\ list[k].wf) => Lower(list[k].name) # Lower(list[j].name))
                    => TunedAs(tprocs'[i], EntryMode(list[j]), cpu_count)]_vars

(***************************************************************************)
(* The tracked list under the UI's handlers and the tuning cycle           *)
(***************************************************************************)
ListNames == {"SGuard64.exe", "sguard64.exe"}
ListModes == {ECO_MODE, HIGH_PERFORMANCE}

InitList == ParkSvc /\ ParkProc /\ ParkMem /\ ParkTune /\ ParkPriv

NextList ==
    \/ optimize_anticheat_processes /\ UNCHANGED <<svcVars, procVars, memVars, privVars>>
    \/ apply_performance_mode_by_button(ListModes)
          /\ UNCHANGED <<svcVars, procVars, memVars, privVars>>
    \/ on_auto_performance_mode_changed(ListModes)
          /\ UNCHANGED <<svcVars, procVars, memVars, privVars>>
    \/ delete_from_auto_optimize_list_by_button
          /\ UNCHANGED <<svcVars, procVars, memVars, privVars>>
    \/ CycleTracked /\ UNCHANGED <<svcVars, procVars, memVars, privVars>>
    \/ TSpawn(TPids, ListNames, {{}, {"io"}})
          /\ UNCHANGED <<svcVars, procVars, memVars, privVars>>
    \/ TExit /\ UNCHANGED <<svcVars, procVars, memVars, privVars>>

SpecList == InitList /\ [][NextList]_vars

\* process pr is as the bulk optimise leaves a process it tuned: I/O priority
\* VeryLow with the CPU class, affinity and throttle state of Eco
BulkTuned(pr, n) ==
    /\ pr.st = "alive"
    /\ pr.faults = {}
    /\ pr.io = IoPriorityVeryLow
    /\ pr.prio = CPU_PRIORITY_MAP(ECO_MODE)
    /\ pr.throttle
    /\ n > 1 => pr.affinity = {n - 1}

\* the tracked list holds the entry the bulk optimise made for process pr
TrackedByBulk(pr, list) ==
    \E j \in DOMAIN list :
       /\ list[j].name \in Range(anticheat_processes)
       /\ Lower(list[j].name) = Lower(pr.name)
       /\ EntryMode(list[j]) = ECO_MODE

\* C39: a cycle of the tuning scheduler leaves a process that the bulk
\* optimise tuned (Eco, I/O priority VeryLow) and added to the tracked list
\* with the I/O priority, CPU priority class, affinity and throttle state it had
C39_CycleKeepsBulkTuning ==
    [][cycleLast'.seq # cycleLast.seq =>
         \A i \in TPids :
            (BulkTuned(tprocs[i], cpu_count)
               /\ TrackedByBulk(tprocs[i], io_priority_processes))
              => tprocs'[i] = tprocs[i]]_vars

\* C40: the tracked list holds at most one entry per process name compared
\* case-insensitively
C40_OneEntryPerName ==
    \A i, j \in DOMAIN io_priority_processes :
       i # j => Lower(io_priority_processes[i].name) # Lower(io_priority_processes[j].name)

(***************************************************************************)
(* The process tuner applied by name                                       *)
(***************************************************************************)
ByNameModes == {ECO_MODE, HIGH_PERFORMANCE}

InitByName == ParkSvc /\ ParkProc /\ ParkMem /\ ParkTune /\ ParkPriv

NextByName ==
    \/ ApplyByName(ByNameModes) /\ UNCHANGED <<svcVars, procVars, memVars, privVars>>
    \/ TSpawn(TPids, TuneNames, {{}, {"io"}})
          /\ UNCHANGED <<svcVars, procVars, memVars, privVars>>
    \/ TExit /\ UNCHANGED <<svcVars, procVars, memVars, privVars>>

SpecByName == InitByName /\ [][NextByName]_vars

\* C10: set_process_io_priority_by_name returns (successCount, totalCount)
\* with totalCount the number of running processes whose name matches
\* case-insensitively and successCount the number of those on which the tuning
\* returns true, whatever other processes the enumeration contains.
C10_CountsAllMatches ==
    byNameLast.called
       => (/\ byNameLast.total = Cardinality(byNameLast.matching)
           /\ byNameLast.success = Cardinality(byNameLast.wouldSucceed))

====
